---- MODULE Spec2Model ----
(***************************************************************************)
(* A model of the AI-AutoCoding-DAO orchestration core: the TokenTracker   *)
(* (src/src/App.tsx), the processTask pipelines (src/src/index.js,         *)
(* src/src/components/ClientFeatures.tsx,                                  *)
(* src/src/orchestration/task-processor.js), the QualityAnalyzer           *)
(* (src/src/evaluation/quality-analyzer.js) and the TemplateManager        *)
(* (src/src/tools/bolt-diy-connector.js, src/unnamed/part_007).            *)
(*                                                                         *)
(* JavaScript values are modelled as follows: undefined is the string      *)
(* Undefined, null is the string Null, a                                   *)
(* number that is a quotient is a reduced fraction <<n, d>>. A Map or an   *)
(* object used as one is a function whose DOMAIN is its set of keys.       *)
(* Opaque payload the handlers only carry along (description, timeSpent)   *)
(* takes part in no branch and is left out of the records.                 *)
(***************************************************************************)
EXTENDS Integers, Sequences, FiniteSets, TLC

VARIABLES
    tasks,           \* TokenTracker.tasks: Map taskId -> task record
    directCosts,     \* TokenTracker.directCosts: Map taskId -> tokens
    delegatedCosts,  \* TokenTracker.delegatedCosts: Map taskId -> best total
    toolPerformance, \* TokenTracker.toolPerformance: Map tool -> counters
    historicalData,  \* TokenTracker.historicalData: array of records
    now,             \* the wall clock read by Date.now()
    solo,            \* per task id: the record a tracker fed only that id's calls holds
    recorded,        \* per task id: the (tool, total) pairs recorded since it was started
    implementation,  \* the implementation argument of analyzeQuality
    quality,         \* what the analyzeQuality call gave back
    templates,       \* TemplateManager.templates: tool -> type -> template
    templateCall,    \* the last call made to the TemplateManager and its result
    system,          \* which processTask is under study, and its configuration
    calls,           \* the processTask calls made so far, by number
    metrics,         \* MetricsCollector.metrics
    processorMetrics, \* TaskProcessor.metrics
    fill,            \* a fillTemplate call: its arguments and what it returned
    request,         \* an AiacdCoreClient.makeRequest call and its retry operation
    connector,       \* a tool connector: its construction and the calls made on it
    validation,      \* a validateTask call: its argument and what it returned
    analysis,        \* a TaskAnalyzer, a task and the analyzeTask calls made on it
    comparison       \* a compareImplementations call: its arguments and its outcome

trackerVars == <<tasks, directCosts, delegatedCosts, toolPerformance,
                 historicalData, now, solo, recorded>>

qualityVars == <<implementation, quality>>

templateVars == <<templates, templateCall>>

pipelineVars == <<system, calls, metrics, processorMetrics>>

\* the calls of the utility functions
utilVars == <<fill, request, connector, validation, analysis, comparison>>

\* what the TokenTracker's methods leave alone
otherVars == <<qualityVars, templateVars, pipelineVars, utilVars>>

vars == <<trackerVars, qualityVars, templateVars, pipelineVars, utilVars>>

----------------------------------------------------------------------------
(* Bounds and input domains *)

MaxTime == 1
MaxHistory == 2
MaxDelegations == 1
BestMaxHistory == 1
BestMaxDelegations == 2
EffMaxHistory == 1
EffMaxDelegations == 1
TrendMaxHistory == 5
TrendMaxDelegations == 1
PairMaxHistory == 1
PairMaxDelegations == 1
MaxPieces == 6
MaxCalls == 2
MaxFillPieces == 3
MaxRecords == 3
MaxRetries == 6
MaxTaskCalls == 2
MaxFeatures == 2
MaxAnalyses == 2
MaxImplementations == 3

Undefined == "undefined"
Null == "null"

TaskIds == {"t1", "t2"}
Tools == {"claudeDirect", "haiku"}
KnownComplexities == {"low", "medium", "high"}
Complexities == KnownComplexities \cup {"extreme"}
DirectTokens == {0, 1200}
MediumBreakdown == [analysis |-> 100, delegation |-> 150, review |-> 50]
DelegatedBreakdowns ==
    { [analysis |-> 0,   delegation |-> 0,   review |-> 0],
      MediumBreakdown,
      [analysis |-> 200, delegation |-> 200, review |-> 100] }
QualityScores == {8}

----------------------------------------------------------------------------
(* Numbers *)

Abs(x) == IF x < 0 THEN -x ELSE x

RECURSIVE GCD(_, _)
GCD(a, b) == IF b = 0 THEN a ELSE GCD(b, a % b)

\* n/d as a reduced fraction with a positive denominator (d # 0)
Frac(n, d) ==
    LET g == GCD(Abs(n), Abs(d))
        s == IF d < 0 THEN -1 ELSE 1
    IN  <<(s * n) \div g, (s * d) \div g>>

FracZero == <<0, 1>>

\* the JavaScript quotient n / d: a fraction, or a non-finite number
\* (NaN, Infinity), held as <<n, 0>>, when d is 0
JsDiv(n, d) == IF d = 0 THEN <<n, 0>> ELSE Frac(n, d)
IsFinite(p) == p[2] # 0
FracTimes(p, n, d) == IF IsFinite(p) THEN Frac(p[1] * n, p[2] * d) ELSE p
FracAdd(p, q) == Frac(p[1] * q[2] + q[1] * p[2], p[2] * q[2])
FracDivInt(p, k) == Frac(p[1], p[2] * k)
FracLess(p, q) == p[1] * q[2] < q[1] * p[2]

\* Number.prototype.toFixed(2) of the fraction p, in hundredths:
\* the nearest hundredth, the one larger in magnitude on a tie
ToFixed2(p) ==
    LET a == Abs(p[1]) * 100
        r == (2 * a + p[2]) \div (2 * p[2])
    IN  IF p[1] < 0 THEN -r ELSE r

\* x.toFixed(2) + '%': the hundredths of a finite x, "NaN%" or "Infinity%" otherwise
Percent(p) ==
    IF IsFinite(p) THEN [finite |-> TRUE, hundredths |-> ToFixed2(p)]
    ELSE [finite |-> FALSE, hundredths |-> 0]

----------------------------------------------------------------------------
(* TokenTracker: src/src/App.tsx *)

WithDirectCostOf(task, tokens) == [task EXCEPT !.direct = tokens]

\* Map.set / property assignment on a Map or object held as a function
Put(f, k, v) == [x \in DOMAIN f \cup {k} |-> IF x = k THEN v ELSE f[x]]

EmptyMap == [x \in {} |-> 0]

Total(costs) == costs.analysis + costs.delegation + costs.review

\* the record startTask stores; a complexity left undefined takes the
\* parameter default 'medium'
NewTask(complexity, t) ==
    [ complexity |-> IF complexity = Undefined THEN "medium" ELSE complexity,
      startTime  |-> t,
      direct     |-> 0,
      delegated  |-> [analysis |-> 0, delegation |-> 0, review |-> 0,
                      total |-> 0, toolName |-> Undefined],
      tools      |-> EmptyMap,
      completed  |-> FALSE,
      metrics    |-> [timeToComplete |-> 0, qualityScore |-> 0,
                      efficiencyRatio |-> FracZero] ]

\* variant: the direct cost is written to every tracked task
RecordDirectCostToAll(taskId, tokens) ==
    /\ IF taskId \in DOMAIN tasks
       THEN /\ tasks' = [id \in DOMAIN tasks |-> WithDirectCostOf(tasks[id], tokens)]
            /\ directCosts' = Put(directCosts, taskId, tokens)
       ELSE UNCHANGED <<tasks, directCosts>>
    /\ solo' = IF taskId \in DOMAIN solo
               THEN [solo EXCEPT ![taskId] = WithDirectCostOf(@, tokens)]
               ELSE solo
    /\ UNCHANGED <<delegatedCosts, toolPerformance, historicalData, now, recorded>>

\* variant: recording a direct cost reopens the task
WithDirectCostReopening(task, tokens) ==
    [task EXCEPT !.direct = tokens, !.completed = FALSE]

\* recordDirectCost on a known task
WithDirectCost(task, tokens) == [task EXCEPT !.direct = tokens]

\* recordDelegatedCost on a known task: the per-tool entry is overwritten,
\* the best delegation is replaced when none is stored (total falsy) or the
\* new total is lower
WithDelegatedCost(task, toolName, costs) ==
    LET total == Total(costs)
        entry == [analysis |-> costs.analysis, delegation |-> costs.delegation,
                  review |-> costs.review, total |-> total]
        better == task.delegated.total = 0 \/ total < task.delegated.total
    IN  [task EXCEPT
            !.tools = Put(@, toolName, entry),
            !.delegated = IF better
                          THEN [analysis |-> costs.analysis,
                                delegation |-> costs.delegation,
                                review |-> costs.review,
                                total |-> total, toolName |-> toolName]
                          ELSE @]

\* completeTask on a known task: the ratio is assigned only when both costs
\* are positive, and keeps its previous value otherwise
Completed(task, qualityScore, t) ==
    [task EXCEPT
        !.completed = TRUE,
        !.metrics = [timeToComplete |-> t - task.startTime,
                     qualityScore |-> qualityScore,
                     efficiencyRatio |->
                        IF task.direct > 0 /\ task.delegated.total > 0
                        THEN Frac(task.direct, task.delegated.total)
                        ELSE @.efficiencyRatio]]

\* variant: the log entry takes the delegation phase alone for the delegated total
HistoryEntryDelegationPhase(taskId, task, qualityScore, t) ==
    [ taskId          |-> taskId,
      complexity      |-> task.complexity,
      directTokens    |-> task.direct,
      delegatedTokens |-> task.delegated.delegation,
      bestTool        |-> task.delegated.toolName,
      efficiencyRatio |-> task.metrics.efficiencyRatio,
      qualityScore    |-> qualityScore,
      timestamp       |-> t ]

\* the record completeTask pushes to historicalData
HistoryEntry(taskId, task, qualityScore, t) ==
    [ taskId          |-> taskId,
      complexity      |-> task.complexity,
      directTokens    |-> task.direct,
      delegatedTokens |-> task.delegated.total,
      bestTool        |-> task.delegated.toolName,
      efficiencyRatio |-> task.metrics.efficiencyRatio,
      qualityScore    |-> qualityScore,
      timestamp       |-> t ]

NewPerformance ==
    [ taskCount |-> 0, totalTokens |-> 0,
      complexityBreakdown |->
          [c \in KnownComplexities |-> [count |-> 0, tokens |-> 0]] ]

\* _updateToolPerformance
UpdateToolPerformance(perf, toolName, complexity, tokens) ==
    LET p == IF toolName \in DOMAIN perf THEN perf[toolName] ELSE NewPerformance
    IN  Put(perf, toolName,
            [ taskCount |-> p.taskCount + 1,
              totalTokens |-> p.totalTokens + tokens,
              complexityBreakdown |->
                  IF complexity \in KnownComplexities
                  THEN [p.complexityBreakdown EXCEPT ![complexity] =
                            [count |-> @.count + 1, tokens |-> @.tokens + tokens]]
                  ELSE p.complexityBreakdown ])

DelegationCount ==
    LET n(tl) == IF tl \in DOMAIN toolPerformance
                 THEN toolPerformance[tl].taskCount ELSE 0
    IN  n("claudeDirect") + n("haiku")

StartTask(taskId, complexity) ==
    /\ tasks' = Put(tasks, taskId, NewTask(complexity, now))
    /\ solo' = Put(solo, taskId, NewTask(complexity, now))
    /\ recorded' = Put(recorded, taskId, {})
    /\ UNCHANGED <<directCosts, delegatedCosts, toolPerformance, historicalData, now>>

RecordDirectCost(taskId, tokens) ==
    /\ IF taskId \in DOMAIN tasks
       THEN /\ tasks' = [tasks EXCEPT ![taskId] = WithDirectCost(@, tokens)]
            /\ directCosts' = Put(directCosts, taskId, tokens)
       ELSE UNCHANGED <<tasks, directCosts>>
    /\ solo' = IF taskId \in DOMAIN solo
               THEN [solo EXCEPT ![taskId] = WithDirectCost(@, tokens)]
               ELSE solo
    /\ UNCHANGED <<delegatedCosts, toolPerformance, historicalData, now, recorded>>

RecordDelegatedCost(taskId, toolName, costs) ==
    /\ IF taskId \in DOMAIN tasks
       THEN /\ tasks' = [tasks EXCEPT ![taskId] = WithDelegatedCost(@, toolName, costs)]
            /\ delegatedCosts' =
                  Put(delegatedCosts, taskId, tasks'[taskId].delegated.total)
            /\ toolPerformance' =
                  UpdateToolPerformance(toolPerformance, toolName,
                                        tasks[taskId].complexity, Total(costs))
       ELSE UNCHANGED <<tasks, delegatedCosts, toolPerformance>>
    /\ solo' = IF taskId \in DOMAIN solo
               THEN [solo EXCEPT ![taskId] = WithDelegatedCost(@, toolName, costs)]
               ELSE solo
    /\ recorded' = IF taskId \in DOMAIN recorded
                   THEN Put(recorded, taskId,
                            recorded[taskId] \cup
                                {[tool |-> toolName, total |-> Total(costs)]})
                   ELSE recorded
    /\ UNCHANGED <<directCosts, historicalData, now>>

CompleteTask(taskId, qualityScore) ==
    /\ IF taskId \in DOMAIN tasks
       THEN /\ tasks' = [tasks EXCEPT ![taskId] = Completed(@, qualityScore, now)]
            /\ historicalData' =
                  Append(historicalData,
                         HistoryEntry(taskId, tasks'[taskId], qualityScore, now))
       ELSE UNCHANGED <<tasks, historicalData>>
    /\ solo' = IF taskId \in DOMAIN solo
               THEN [solo EXCEPT ![taskId] = Completed(@, qualityScore, now)]
               ELSE solo
    /\ UNCHANGED <<directCosts, delegatedCosts, toolPerformance, now, recorded>>

\* time passes between two calls
Tick ==
    /\ now' = now + 1
    /\ UNCHANGED <<tasks, directCosts, delegatedCosts, toolPerformance,
                   historicalData, solo, recorded>>

TrackerInit ==
    /\ tasks = EmptyMap
    /\ directCosts = EmptyMap
    /\ delegatedCosts = EmptyMap
    /\ toolPerformance = EmptyMap
    /\ historicalData = <<>>
    /\ now = 0
    /\ solo = EmptyMap
    /\ recorded = EmptyMap

\* complexityWeights, in tenths
ComplexityWeights == [low |-> 8, medium |-> 10, high |-> 12]

\* variant: the gain is computed without testing direct > 0
CompareEfficiencyUnguarded(taskId) ==
    LET task == tasks[taskId]
        efficiency == FracTimes(JsDiv(task.direct - task.delegated.total, task.direct),
                                100, 1)
        weight == IF task.complexity \in DOMAIN ComplexityWeights
                  THEN ComplexityWeights[task.complexity] ELSE 10
    IN  [ taskId |-> taskId,
          complexity |-> task.complexity,
          directCost |-> task.direct,
          delegatedCost |-> task.delegated,
          tokenSavings |-> task.direct - task.delegated.total,
          efficiencyGain |-> Percent(efficiency),
          normalizedEfficiency |-> Percent(FracTimes(efficiency, weight, 10)),
          bestTool |-> task.delegated.toolName,
          qualityScore |-> task.metrics.qualityScore,
          timeToComplete |-> task.metrics.timeToComplete ]

\* compareEfficiency on a known task id (null otherwise)
CompareEfficiency(taskId) ==
    LET task == tasks[taskId]
        efficiency ==
            IF task.direct > 0
            THEN FracTimes(JsDiv(task.direct - task.delegated.total, task.direct),
                           100, 1)
            ELSE FracZero
        weight == IF task.complexity \in DOMAIN ComplexityWeights
                  THEN ComplexityWeights[task.complexity] ELSE 10
    IN  [ taskId |-> taskId,
          complexity |-> task.complexity,
          directCost |-> task.direct,
          delegatedCost |-> task.delegated,
          tokenSavings |-> task.direct - task.delegated.total,
          efficiencyGain |-> Percent(efficiency),
          normalizedEfficiency |-> Percent(FracTimes(efficiency, weight, 10)),
          bestTool |-> task.delegated.toolName,
          qualityScore |-> task.metrics.qualityScore,
          timeToComplete |-> task.metrics.timeToComplete ]

\* Array.prototype.sort((a, b) => a.timestamp - b.timestamp): a stable sort
RECURSIVE InsertByTimestamp(_, _)
InsertByTimestamp(sorted, e) ==
    IF sorted = <<>> THEN <<e>>
    ELSE IF sorted[Len(sorted)].timestamp <= e.timestamp THEN Append(sorted, e)
    ELSE Append(InsertByTimestamp(SubSeq(sorted, 1, Len(sorted) - 1), e),
                sorted[Len(sorted)])

RECURSIVE SortByTimestamp(_)
SortByTimestamp(data) ==
    IF data = <<>> THEN <<>>
    ELSE InsertByTimestamp(SortByTimestamp(SubSeq(data, 1, Len(data) - 1)),
                           data[Len(data)])

\* reduce((sum, item) => sum + item.efficiencyRatio, 0)
RECURSIVE SumRatios(_)
SumRatios(group) ==
    IF group = <<>> THEN FracZero
    ELSE FracAdd(SumRatios(SubSeq(group, 1, Len(group) - 1)),
                 group[Len(group)].efficiencyRatio)

InsufficientData ==
    [trend |-> "insufficient data", improvement |-> [text |-> FALSE, hundredths |-> 0]]

\* the comparison _analyzeTrends makes once the data is split at splitPoint
TrendComparison(sortedData, splitPoint) ==
    LET firstGroup == SubSeq(sortedData, 1, splitPoint)
        lastGroup == SubSeq(sortedData, Len(sortedData) - splitPoint + 1,
                            Len(sortedData))
        firstAvg == FracDivInt(SumRatios(firstGroup), Len(firstGroup))
        lastAvg == FracDivInt(SumRatios(lastGroup), Len(lastGroup))
    IN  [ trend |-> IF FracLess(firstAvg, lastAvg) THEN "improving" ELSE "declining",
          improvement |->
              [ text |-> TRUE,
                hundredths |->
                    IF FracLess(FracZero, firstAvg)
                    THEN ToFixed2(Frac((lastAvg[1] * firstAvg[2] - firstAvg[1] * lastAvg[2])
                                          * 100 * firstAvg[2],
                                       lastAvg[2] * firstAvg[2] * firstAvg[1]))
                    ELSE 0 ],
          firstGroupAvg |-> ToFixed2(firstAvg),
          lastGroupAvg |-> ToFixed2(lastAvg) ]

\* variant: the split point is rounded up
AnalyzeTrendsCeiling ==
    IF Len(historicalData) < 2 THEN InsufficientData
    ELSE LET sortedData == SortByTimestamp(historicalData)
             splitPoint == (Len(sortedData) + 2) \div 3
         IN  IF splitPoint = 0 THEN InsufficientData
             ELSE TrendComparison(sortedData, splitPoint)

\* _analyzeTrends, the trendAnalysis of getStats()
AnalyzeTrends ==
    IF Len(historicalData) < 2 THEN InsufficientData
    ELSE LET sortedData == SortByTimestamp(historicalData)
             splitPoint == Len(sortedData) \div 3
         IN  IF splitPoint = 0 THEN InsufficientData
             ELSE TrendComparison(sortedData, splitPoint)

----------------------------------------------------------------------------
(* QualityAnalyzer: src/src/evaluation/quality-analyzer.js *)

(* A JavaScript value passed as implementation: a string (text, a sequence  *)
(* of characters), null, undefined, or an object whose implementation      *)
(* property (inner) is absent, a string or some other object.              *)
NoValue == [kind |-> "undefined", text |-> <<>>]
JsString(s) == [kind |-> "string", text |-> s, inner |-> NoValue]
JsObject(i) == [kind |-> "object", text |-> <<>>, inner |-> i]
JsNull == [kind |-> "null", text |-> <<>>, inner |-> NoValue]
JsUndefined == [kind |-> "undefined", text |-> <<>>, inner |-> NoValue]

\* the pieces the implementation strings are built from; every element of
\* a text is one character, the backquote being written Backtick
Backtick == "backtick"
Fence == <<Backtick, Backtick, Backtick>>
Pieces == {Fence, <<"\n">>, <<"a">>, <<"-">>}

RECURSIVE Flatten(_)
Flatten(ps) == IF ps = <<>> THEN <<>> ELSE Head(ps) \o Flatten(Tail(ps))

Texts == {Flatten(ps) : ps \in UNION {[1..n -> Pieces] : n \in 0..MaxPieces}}

Implementations ==
    {JsNull, JsUndefined}
        \cup {JsString(s) : s \in Texts}
        \cup {JsObject(i) : i \in {NoValue, [kind |-> "object", text |-> <<>>]}}
        \cup {JsObject([kind |-> "string", text |-> s]) : s \in Texts}

\* the characters \w matches
WordChars == {"a"}

IsFenceAt(s, i) ==
    i + 2 <= Len(s) /\ SubSeq(s, i, i + 2) = Fence

\* \w* from position j: the position after the longest run of word characters
RECURSIVE SkipWord(_, _)
SkipWord(s, j) ==
    IF j <= Len(s) /\ s[j] \in WordChars THEN SkipWord(s, j + 1) ELSE j

\* the first fence at or after position k, 0 when there is none
RECURSIVE NextFence(_, _)
NextFence(s, k) ==
    IF k > Len(s) THEN 0
    ELSE IF IsFenceAt(s, k) THEN k ELSE NextFence(s, k + 1)

NoMatch == [found |-> FALSE, group |-> <<>>, end |-> 0]

\* codeBlockRegex /```\w*\n([\s\S]*?)```/ tried at position i
MatchAt(s, i) ==
    IF ~IsFenceAt(s, i) THEN NoMatch
    ELSE LET j == SkipWord(s, i + 3)
         IN  IF j > Len(s) \/ s[j] # "\n" THEN NoMatch
             ELSE LET k == NextFence(s, j + 1)
                  IN  IF k = 0 THEN NoMatch
                      ELSE [found |-> TRUE, group |-> SubSeq(s, j + 1, k - 1),
                            end |-> k + 3]

\* implementation.matchAll(codeBlockRegex) from position pos on: the
\* capture groups of the successive non-overlapping matches
RECURSIVE MatchAll(_, _)
MatchAll(s, pos) ==
    IF pos > Len(s) THEN <<>>
    ELSE LET m == MatchAt(s, pos)
         IN  IF m.found THEN <<m.group>> \o MatchAll(s, m.end)
             ELSE MatchAll(s, pos + 1)

\* matches.reduce((largest, match) => match[1].length > largest[1].length
\*                                     ? match : largest, matches[0])
RECURSIVE Largest(_, _)
Largest(largest, matches) ==
    IF matches = <<>> THEN largest
    ELSE Largest(IF Len(Head(matches)) > Len(largest) THEN Head(matches) ELSE largest,
                 Tail(matches))

\* _extractCode of a string
ExtractFromString(s) ==
    LET matches == MatchAll(s, 1)
    IN  IF Len(matches) > 0 THEN Largest(matches[1], matches) ELSE s

ReadOfNullish(kind) ==
    "Cannot read properties of " \o kind \o " (reading 'implementation')"

\* _extractCode: the code, null, or a TypeError when implementation is
\* null or undefined
ExtractCode(impl) ==
    IF impl.kind = "string"
    THEN [threw |-> FALSE, null |-> FALSE, code |-> ExtractFromString(impl.text),
          error |-> ""]
    ELSE IF impl.kind \in {"null", "undefined"}
    THEN [threw |-> TRUE, null |-> FALSE, code |-> <<>>,
          error |-> ReadOfNullish(impl.kind)]
    ELSE IF impl.inner.kind = "string" /\ impl.inner.text # <<>>
    THEN [threw |-> FALSE, null |-> FALSE,
          code |-> ExtractFromString(impl.inner.text), error |-> ""]
    ELSE [threw |-> FALSE, null |-> TRUE, code |-> <<>>, error |-> ""]

\* this.metrics: the weights, in hundredths, in declaration order
MetricNames ==
    << "functionality", "codeQuality", "architecture", "accessibility",
       "performance", "visualImplementation", "errorHandling", "tokenEfficiency" >>

MetricWeights ==
    [ functionality |-> 20, codeQuality |-> 15, architecture |-> 15,
      accessibility |-> 10, performance |-> 10, visualImplementation |-> 10,
      errorHandling |-> 10, tokenEfficiency |-> 10 ]

\* _getScores: the raw scores, in tenths
Scores ==
    [ functionality |-> 85, codeQuality |-> 80, architecture |-> 75,
      accessibility |-> 65, performance |-> 70, visualImplementation |-> 80,
      errorHandling |-> 70, tokenEfficiency |-> 85 ]

\* a total in which every metric has weight 1
RECURSIVE UnweightedTotal(_)
UnweightedTotal(names) ==
    IF names = <<>> THEN 0
    ELSE Scores[Head(names)] * 100 + UnweightedTotal(Tail(names))

\* detailedScores after the loop over the metrics: every metric of
\* this.metrics that _getScores scored, with its raw score and its weight
DetailedScores ==
    [metric \in {MetricNames[i] : i \in 1..Len(MetricNames)} \cap DOMAIN Scores |->
        [rawScore |-> Scores[metric], weight |-> MetricWeights[metric],
         weightedScore |-> Scores[metric] * MetricWeights[metric]]]

\* totalScore after the loop over the metrics, in thousandths
RECURSIVE WeightedTotal(_)
WeightedTotal(names) ==
    IF names = <<>> THEN 0
    ELSE Scores[Head(names)] * MetricWeights[Head(names)] + WeightedTotal(Tail(names))

\* Math.round(totalScore * 10) / 10, in tenths
RoundToTenth(thousandths) == (thousandths + 50) \div 100

\* _aggregateWeaknesses: one entry per metric scored below 6
AggregateWeaknesses ==
    SelectSeq(MetricNames, LAMBDA m : Scores[m] < 60)

\* code.split('\n').length
CodeLength(code) == Len(SelectSeq(code, LAMBDA c : c = "\n")) + 1

Pending ==
    [status |-> "pending", overallScore |-> 0, detailedScores |-> EmptyMap,
     weaknesses |-> <<>>, codeLength |-> 0, error |-> ""]

\* analyzeQuality: the try block, then the catch block, which reads
\* implementation.metadata and so throws again on null and undefined
AnalyzeQuality(impl) ==
    LET extracted == ExtractCode(impl)
        failure ==
            IF extracted.threw THEN extracted.error
            ELSE IF extracted.null \/ extracted.code = <<>>
            THEN "No code found in implementation"
            ELSE ""
    IN  IF failure = ""
        THEN [status |-> "returned",
              overallScore |-> RoundToTenth(WeightedTotal(MetricNames)),
              detailedScores |-> DetailedScores,
              weaknesses |-> AggregateWeaknesses,
              codeLength |-> CodeLength(extracted.code), error |-> ""]
        ELSE IF impl.kind \in {"null", "undefined"}
        THEN [status |-> "threw", overallScore |-> 0, detailedScores |-> EmptyMap,
              weaknesses |-> <<>>,
              codeLength |-> 0,
              error |-> "Cannot read properties of " \o impl.kind
                            \o " (reading 'metadata')"]
        ELSE [status |-> "returned", overallScore |-> 0,
              detailedScores |-> EmptyMap,
              weaknesses |-> <<"Analysis failed: " \o failure>>,
              codeLength |-> 0, error |-> failure]

\* a caller invokes analyzeQuality(implementation, task)
AnalyzeQualityCall ==
    /\ quality.status = "pending"
    /\ quality' = AnalyzeQuality(implementation)
    /\ UNCHANGED <<implementation, trackerVars, templateVars, pipelineVars, utilVars>>

QualityIdle ==
    /\ implementation = JsUndefined
    /\ quality = Pending

----------------------------------------------------------------------------
(* TemplateManager: src/src/tools/bolt-diy-connector.js *)

(* A template body, a default value and a task field are strings, held as  *)
(* sequences of tokens: a token is a placeholder "{name}" or a run of      *)
(* literal text without braces. No value holds a "$" replacement pattern.  *)
Text == "text"
Placeholder(name) == "{" \o name \o "}"

\* the placeholders of the templates the constructor registers, in the
\* order of their occurrence in the body; every one but description has a
\* default, and the defaults are declared in the same order
BuiltInPlaceholders ==
    [
      haiku |-> [
        logicFunction |->
            << "tokenBudget", "description", "inputTypes",
                 "validationRules", "edgeCases", "returnType",
                 "errorHandling", "performanceBounds",
                 "dependencies", "environment", "integrationPoints",
                 "testScenarios" >>,
        dataTransform |->
            << "tokenBudget", "description", "inputFields",
                 "inputConstraints", "outputFields",
                 "outputGuarantees", "transformations",
                 "validations", "errorHandling", "timeComplexity",
                 "memoryBounds", "scaleFactors" >>,
        integration |->
            << "tokenBudget", "description", "sourceService",
                 "sourceMethods", "sourceAuth", "targetService",
                 "targetMethods", "targetAuth", "requestMapping",
                 "responseHandling", "errorScenarios", "timeout",
                 "retryPolicy", "circuitBreaker" >> ],
      boltNew |-> [
        basicUI |->
            << "componentClass", "layout", "spacing", "typography",
                 "colors", "states", "animations", "interactions",
                 "requiredProps", "optionalProps", "ariaRoles",
                 "keyboardNav", "screenReader", "responsive",
                 "browserSupport", "performance" >>,
        advancedComponent |->
            << "description", "internalStates", "stateReducers",
                 "contextDependencies", "propsInterface",
                 "inputEvents", "eventHandlers", "outputEvents",
                 "eventPayloads", "childComponents",
                 "compositionRules", "componentCommunication",
                 "dependencies", "performanceRequirements",
                 "testingStrategy" >>,
        smartComponent |->
            << "description", "dataSources", "dataModels",
                 "dataOperations", "viewComponents", "uiStates",
                 "userFeedback", "businessRules", "dataValidations",
                 "processFlows", "serviceIntegrations",
                 "systemEvents", "dataStorage" >> ],
      v0Dev |-> [
        designSystem |->
            << "description", "primaryColors", "secondaryColors",
                 "semanticColors", "fontFamilies", "fontSizes",
                 "textStyles", "gridSystem", "componentSpacing",
                 "responsiveRules", "inputStyles", "containerStyles",
                 "navigationStyles", "formPatterns", "listPatterns",
                 "cardPatterns", "cssVariables", "styleMixins",
                 "utilityFunctions" >>,
        pattern |->
            << "description", "layoutStructure", "uiElements",
                 "visualStates", "userTriggers", "systemFeedback",
                 "stateTransitions", "textElements", "mediaTypes",
                 "dynamicContent", "htmlPattern", "cssPattern",
                 "jsPattern" >>,
        theme |->
            << "description", "themeTokens", "styleOverrides",
                 "themeExtensions", "elementStyles", "styleVariants",
                 "stateStyles", "themeApplication",
                 "customizationOptions", "compatibilityRequirements" >> ],
      claudeDirect |-> [
        general |->
            << "componentName", "description", "requirements",
                 "technicalDetails", "implementationNotes",
                 "examples" >> ] ]

RECURSIVE BuiltInBody(_)
BuiltInBody(names) ==
    IF names = <<>> THEN <<>>
    ELSE <<Text, Placeholder(Head(names))>> \o BuiltInBody(Tail(names))

\* the default value the constructor declares for a placeholder, held as
\* one run of literal text
DefaultValue(name) == <<"[" \o name \o "]">>

RECURSIVE BuiltInDefaults(_)
BuiltInDefaults(names) ==
    IF names = <<>> THEN <<>>
    ELSE IF Head(names) = "description" THEN BuiltInDefaults(Tail(names))
    ELSE <<[key |-> Head(names), value |-> DefaultValue(Head(names))]>>
            \o BuiltInDefaults(Tail(names))

\* this.templates after the constructor
BuiltInTemplates ==
    [tool \in DOMAIN BuiltInPlaceholders |->
        [type \in DOMAIN BuiltInPlaceholders[tool] |->
            [ template |-> BuiltInBody(BuiltInPlaceholders[tool][type]),
              defaults |-> BuiltInDefaults(BuiltInPlaceholders[tool][type]) ]]]

HasTemplate(tool, type) ==
    tool \in DOMAIN templates /\ type \in DOMAIN templates[tool]

\* the index of the first occurrence of token in s, 0 when there is none
RECURSIVE IndexOf(_, _, _)
IndexOf(s, token, i) ==
    IF i > Len(s) THEN 0
    ELSE IF s[i] = token THEN i ELSE IndexOf(s, token, i + 1)

\* String.prototype.replace(pattern, value) with a string pattern: the
\* first occurrence only
Replace(s, pattern, value) ==
    LET i == IndexOf(s, pattern, 1)
    IN  IF i = 0 THEN s
        ELSE SubSeq(s, 1, i - 1) \o value \o SubSeq(s, i + 1, Len(s))

\* task[key] || fallback: an absent field and an empty string are falsy
FieldOr(task, key, fallback) ==
    IF key \in DOMAIN task /\ task[key] # <<>> THEN task[key] ELSE fallback

\* the loop of getTemplate over Object.entries(defaults)
RECURSIVE FillDefaults(_, _, _)
FillDefaults(filledTemplate, entries, task) ==
    IF entries = <<>> THEN filledTemplate
    ELSE FillDefaults(Replace(filledTemplate, Placeholder(Head(entries).key),
                              FieldOr(task, Head(entries).key, Head(entries).value)),
                      Tail(entries), task)

\* getTemplate on a registered (tool, type)
FilledTemplate(tool, type, task) ==
    LET t == templates[tool][type]
    IN  FillDefaults(Replace(t.template, Placeholder("description"),
                             FieldOr(task, "description", <<"[Description]">>)),
                     t.defaults, task)

Keys(entries) == {entries[i].key : i \in 1..Len(entries)}

ValueOf(entries, key) ==
    entries[CHOOSE i \in 1..Len(entries) : entries[i].key = key].value

\* { ...old, ...new }: the old keys keep their place and take the new
\* values, the keys only new has follow in their order
Merge(old, new) ==
    [i \in 1..Len(old) |->
        IF old[i].key \in Keys(new)
        THEN [key |-> old[i].key, value |-> ValueOf(new, old[i].key)]
        ELSE old[i]]
      \o SelectSeq(new, LAMBDA e : e.key \notin Keys(old))

NoTask == [x \in {} |-> <<>>]

Called(op, tool, type, task, result, text) ==
    [op |-> op, tool |-> tool, type |-> type, task |-> task,
     result |-> result, text |-> text]

GetTemplate(tool, type, task) ==
    /\ templateCall' =
          IF HasTemplate(tool, type)
          THEN Called("getTemplate", tool, type, task, "string",
                      FilledTemplate(tool, type, task))
          ELSE Called("getTemplate", tool, type, task, Null, <<>>)
    /\ UNCHANGED templates

\* task[key]?.toLowerCase().includes(word): a field is a sequence of
\* lower-case pieces, and it includes a word when one of its pieces is it
Includes(task, key, word) ==
    key \in DOMAIN task /\ \E i \in 1..Len(task[key]) : task[key][i] = word

\* _getBestHaikuTemplateType
BestHaikuTemplateType(task) ==
    IF \/ Includes(task, "type", "data") \/ Includes(task, "type", "transform")
       \/ Includes(task, "description", "data")
       \/ Includes(task, "description", "transform")
    THEN "dataTransform"
    ELSE IF \/ Includes(task, "type", "integration") \/ Includes(task, "type", "connect")
            \/ Includes(task, "description", "integration")
            \/ Includes(task, "description", "api")
            \/ Includes(task, "description", "service")
    THEN "integration"
    ELSE "logicFunction"

\* _getBestBoltTemplateType: an absent complexity reads as 'medium'
BestBoltTemplateType(task) ==
    LET complexity == FieldOr(task, "complexity", <<"medium">>)
        described(word) == Includes(task, "description", word)
    IN  IF /\ complexity = <<"high">> \/ described("smart")
           /\ \/ described("data") \/ described("business logic")
              \/ described("service") \/ described("api")
        THEN "smartComponent"
        ELSE IF \/ complexity = <<"high">> \/ complexity = <<"medium">>
                \/ described("complex") \/ described("advanced")
                \/ described("state") \/ described("events")
        THEN "advancedComponent"
        ELSE "basicUI"

\* _getBestV0DevTemplateType
BestV0DevTemplateType(task) ==
    LET described(word) == Includes(task, "description", word)
    IN  IF \/ described("design system") \/ described("component library")
           \/ described("ui library")
        THEN "designSystem"
        ELSE IF described("theme") \/ described("styling") \/ described("color scheme")
        THEN "theme"
        ELSE "pattern"

\* getBestTemplateType: the type, or Null. For a tool without selection
\* logic of its own the type is the first key of its templates; such a
\* tool holds at most one type here, so the first key is the only one
GetBestTemplateType(tool, task) ==
    IF tool \notin DOMAIN templates THEN Null
    ELSE CASE tool = "haiku" -> BestHaikuTemplateType(task)
           [] tool = "boltNew" -> BestBoltTemplateType(task)
           [] tool = "v0Dev" -> BestV0DevTemplateType(task)
           [] tool = "claudeDirect" -> "general"
           [] OTHER -> IF DOMAIN templates[tool] = {} THEN Null
                       ELSE CHOOSE type \in DOMAIN templates[tool] : TRUE

\* generateTemplate(task, tool): getBestTemplateType, then the generic text
\* when it gave null and getTemplate of the type it gave otherwise
GenerateTemplate(task, tool) ==
    LET templateType == GetBestTemplateType(tool, task)
    IN  /\ templateCall' =
              IF templateType = Null
              THEN Called("generateTemplate", tool, Null, task, "string",
                          <<"# Task: ">> \o FieldOr(task, "description", <<Undefined>>)
                              \o <<"Requirements">>)
              ELSE IF HasTemplate(tool, templateType)
              THEN Called("generateTemplate", tool, templateType, task, "string",
                          FilledTemplate(tool, templateType, task))
              ELSE Called("generateTemplate", tool, templateType, task, Null, <<>>)
        /\ UNCHANGED templates

CreateTemplateMerging(tool, type, template, defaults) ==
    /\ templates' =
          Put(templates, tool,
              Put(IF tool \in DOMAIN templates THEN templates[tool] ELSE EmptyMap,
                  type,
                  [template |-> template,
                   defaults |-> IF HasTemplate(tool, type)
                                THEN Merge(templates[tool][type].defaults, defaults)
                                ELSE defaults]))
    /\ templateCall' = Called("createTemplate", tool, type, NoTask, "true", <<>>)

CreateTemplate(tool, type, template, defaults) ==
    /\ templates' =
          Put(templates, tool,
              Put(IF tool \in DOMAIN templates THEN templates[tool] ELSE EmptyMap,
                  type, [template |-> template, defaults |-> defaults]))
    /\ templateCall' = Called("createTemplate", tool, type, NoTask, "true", <<>>)

UpdateTemplate(tool, type, template, defaults) ==
    IF HasTemplate(tool, type)
    THEN /\ templates' =
              [templates EXCEPT ![tool][type] =
                  [ template |-> IF template # <<>> THEN template ELSE @.template,
                    defaults |-> Merge(@.defaults, defaults) ]]
         /\ templateCall' = Called("updateTemplate", tool, type, NoTask, "true", <<>>)
    ELSE /\ templateCall' = Called("updateTemplate", tool, type, NoTask, "false", <<>>)
         /\ UNCHANGED templates

DeleteTemplateWithTool(tool, type) ==
    IF HasTemplate(tool, type)
    THEN /\ templates' = [t \in DOMAIN templates \ {tool} |-> templates[t]]
         /\ templateCall' = Called("deleteTemplate", tool, type, NoTask, "true", <<>>)
    ELSE /\ templateCall' = Called("deleteTemplate", tool, type, NoTask, "false", <<>>)
         /\ UNCHANGED templates

DeleteTemplate(tool, type) ==
    IF HasTemplate(tool, type)
    THEN /\ templates' =
              [templates EXCEPT ![tool] =
                  [t \in DOMAIN @ \ {type} |-> @[t]]]
         /\ templateCall' = Called("deleteTemplate", tool, type, NoTask, "true", <<>>)
    ELSE /\ templateCall' = Called("deleteTemplate", tool, type, NoTask, "false", <<>>)
         /\ UNCHANGED templates

NotCalled == Called("none", "", "", NoTask, "", <<>>)

TemplateInit ==
    /\ templates = BuiltInTemplates
    /\ templateCall = NotCalled

\* the arguments the calls are made with
TemplateTools == {"claudeDirect", "custom"}
TemplateTypes == {"general"}
CustomBodies ==
    { <<>>,
      <<Placeholder("description")>>,
      <<Placeholder("description"), Text, Placeholder("componentName")>>,
      <<Placeholder("componentName"), Text, Placeholder("componentName")>> }
CustomDefaults ==
    { <<>>,
      <<[key |-> "componentName", value |-> DefaultValue("componentName")]>>,
      <<[key |-> "description", value |-> DefaultValue("description")]>> }
Descriptions == {<<>>, <<"Create a login form">>, <<Placeholder("componentName")>>}
ComponentNames == {<<>>, <<"LoginForm">>}
TemplateTasks ==
    {NoTask}
        \cup {[description |-> d] : d \in Descriptions}
        \cup {[componentName |-> c] : c \in ComponentNames}
        \cup {[description |-> d, componentName |-> c] :
                  d \in Descriptions, c \in ComponentNames}

\* One call of the TemplateManager's interface
TemplateStep ==
    \/ \E tool \in TemplateTools, type \in TemplateTypes, task \in TemplateTasks :
          GetTemplate(tool, type, task) /\ UNCHANGED <<trackerVars, qualityVars, pipelineVars, utilVars>>
    \/ \E tool \in TemplateTools, type \in TemplateTypes,
           template \in CustomBodies, defaults \in CustomDefaults :
          CreateTemplate(tool, type, template, defaults)
            /\ UNCHANGED <<trackerVars, qualityVars, pipelineVars, utilVars>>
    \/ \E tool \in TemplateTools, type \in TemplateTypes,
           template \in CustomBodies, defaults \in CustomDefaults :
          UpdateTemplate(tool, type, template, defaults)
            /\ UNCHANGED <<trackerVars, qualityVars, pipelineVars, utilVars>>
    \/ \E tool \in TemplateTools, type \in TemplateTypes :
          DeleteTemplate(tool, type) /\ UNCHANGED <<trackerVars, qualityVars, pipelineVars, utilVars>>

\* the registry's mutators called on built-in and on new (tool, type) pairs
RegistryTools == {"haiku", "custom"}
RegistryTypes == {"logicFunction"}
RegistryBodies == {<<>>, <<Placeholder("description")>>}
RegistryDefaults == {<<>>, <<[key |-> "tokenBudget", value |-> <<"500">>]>>}
\* the tasks a template is selected for
SelectionTasks ==
    {NoTask, [description |-> <<"api">>], [type |-> <<"data">>],
     [description |-> <<"Create a login form">>]}

RegistryStep ==
    \/ \E tool \in RegistryTools, type \in RegistryTypes :
          GetTemplate(tool, type, NoTask)
            /\ UNCHANGED <<trackerVars, qualityVars, pipelineVars, utilVars>>
    \/ \E tool \in RegistryTools, type \in RegistryTypes,
           template \in RegistryBodies, defaults \in RegistryDefaults :
          CreateTemplate(tool, type, template, defaults)
            /\ UNCHANGED <<trackerVars, qualityVars, pipelineVars, utilVars>>
    \/ \E tool \in RegistryTools, type \in RegistryTypes,
           template \in RegistryBodies, defaults \in RegistryDefaults :
          UpdateTemplate(tool, type, template, defaults)
            /\ UNCHANGED <<trackerVars, qualityVars, pipelineVars, utilVars>>
    \/ \E tool \in RegistryTools, type \in RegistryTypes :
          DeleteTemplate(tool, type)
            /\ UNCHANGED <<trackerVars, qualityVars, pipelineVars, utilVars>>
    \/ \E tool \in RegistryTools, task \in SelectionTasks :
          GenerateTemplate(task, tool)
            /\ UNCHANGED <<trackerVars, qualityVars, pipelineVars, utilVars>>

----------------------------------------------------------------------------
(* MetricsCollector: src/scripts/analyze.js *)

NewMetrics ==
    [ tasks |-> EmptyMap,
      tokenUsage |-> [total |-> 0, byType |-> EmptyMap, history |-> <<>>],
      quality |-> [average |-> FracZero, byType |-> EmptyMap, history |-> <<>>],
      performance |-> [processedTasks |-> 0, successfulTasks |-> 0, failedTasks |-> 0],
      efficiency |-> [current |-> FracZero, history |-> <<>>] ]

\* recordTaskMetrics(task, result) at time t, where tokens is
\* (result.tokenUsage || { total: 0 }).total and score is
\* (result.quality || { overallScore: 0 }).overallScore, in tenths
RecordedTaskMetrics(m, task, tokens, score, success, t) ==
    LET taskMetrics == [id |-> task.id, type |-> task.type,
                        complexity |-> task.complexity, tokens |-> tokens,
                        score |-> score, timestamp |-> t]
        recorded1 == Put(m.tasks, task.id, taskMetrics)
        size == Cardinality(DOMAIN recorded1)
        typeTokens == IF task.type \in DOMAIN m.tokenUsage.byType
                      THEN m.tokenUsage.byType[task.type] ELSE 0
        typeQuality == IF task.type \in DOMAIN m.quality.byType
                       THEN m.quality.byType[task.type]
                       ELSE [count |-> 0, total |-> 0]
        efficiency == JsDiv(tokens * 6, tokens)
    IN  [ tasks |-> recorded1,
          tokenUsage |->
              [ total |-> m.tokenUsage.total + tokens,
                byType |-> Put(m.tokenUsage.byType, task.type, typeTokens + tokens),
                history |-> Append(m.tokenUsage.history,
                                   [timestamp |-> t, tokens |-> tokens,
                                    type |-> task.type]) ],
          quality |->
              [ average |->
                    FracDivInt(FracAdd(FracTimes(m.quality.average, size - 1, 1),
                                       <<score, 1>>),
                               size),
                byType |-> Put(m.quality.byType, task.type,
                               [count |-> typeQuality.count + 1,
                                total |-> typeQuality.total + score]),
                history |-> Append(m.quality.history,
                                   [timestamp |-> t, score |-> score,
                                    type |-> task.type]) ],
          performance |->
              [ processedTasks |-> m.performance.processedTasks + 1,
                successfulTasks |-> m.performance.successfulTasks
                                        + (IF success THEN 1 ELSE 0),
                failedTasks |-> m.performance.failedTasks
                                        + (IF success THEN 0 ELSE 1) ],
          efficiency |->
              [ current |-> efficiency,
                history |-> Append(m.efficiency.history,
                                   [timestamp |-> t, efficiency |-> efficiency,
                                    tokens |-> tokens]) ] ]

\* a recordTaskMetrics that writes the performance counters back from a
\* copy it took when the collector was new
RecordTaskMetricsFromSnapshot(m, task, tokens, score, success, t) ==
    [RecordedTaskMetrics(m, task, tokens, score, success, t) EXCEPT
        !.performance =
            RecordedTaskMetrics(NewMetrics, task, tokens, score, success, t).performance]

\* recordTaskMetrics runs to its end without an await: no other call runs
\* between its reads and its writes
RecordTaskMetrics(m, task, tokens, score, success, t) ==
    RecordedTaskMetrics(m, task, tokens, score, success, t)

\* the result objects recordTaskMetrics is handed: a failure record without
\* tokenUsage and quality, and successes with both (scores in tenths)
MetricResults ==
    {[tokens |-> 0, score |-> 0, success |-> FALSE]}
        \cup {[tokens |-> 200, score |-> sc, success |-> TRUE] : sc \in {60, 80}}

MetricTasks ==
    {[id |-> i, type |-> Undefined, complexity |-> Undefined] : i \in {"t1", "t2"}}

\* a caller records the metrics of a task
RecordTaskMetricsCall(task, result) ==
    /\ metrics' = RecordTaskMetrics(metrics, task, result.tokens, result.score,
                                    result.success, now)
    /\ UNCHANGED <<system, calls, processorMetrics, trackerVars, qualityVars,
                   templateVars, utilVars>>

MetricsStep ==
    \E task \in MetricTasks, result \in MetricResults :
        /\ Len(metrics.quality.history) < MaxRecords
        /\ RecordTaskMetricsCall(task, result)

----------------------------------------------------------------------------
(* processTask: src/src/index.js, src/src/components/ClientFeatures.tsx,   *)
(* src/src/orchestration/task-processor.js                                 *)

(* The system under study is one of the three classes that define          *)
(* processTask: the AIAutoCodingDAO of index.js with its ClaudeDirect      *)
(* connector, the AIAutoCodingDAO of ClientFeatures.tsx with its           *)
(* ClaudeSonnet and bolt.diy connectors, or the TaskProcessor. devMode is  *)
(* the system's config.devMode, simulated tells that the connectors were   *)
(* constructed in dev mode, apiKey that the credentials are configured.    *)
Systems ==
    {[variant |-> "index", devMode |-> FALSE, simulated |-> FALSE, apiKey |-> k] :
        k \in BOOLEAN}
      \cup {[variant |-> "client", devMode |-> d, simulated |-> s, apiKey |-> ~s] :
               d \in BOOLEAN, s \in BOOLEAN}
      \cup {[variant |-> "processor", devMode |-> FALSE, simulated |-> FALSE,
             apiKey |-> TRUE]}

\* a task object: description is a string of ten characters or more
\* ("text"), absent, or a number
PipelineTasks ==
    {[id |-> "t1", description |-> d, type |-> Undefined, complexity |-> Undefined] :
        d \in {"text", "absent", "number"}}

\* what the simulated Claude Direct call answers: a fenced block and prose
SimulatedResponse == Fence \o <<"a", "\n", "a", "\n">> \o Fence \o <<"\n", "a">>
\* the implementation the Claude Sonnet connector simulates: unfenced code
SimulatedImplementation == <<"\n", "a", "\n", "a">>
\* the largest code block of an answer of the Claude Sonnet API
ExtractedImplementation == <<"a", "\n", "a">>

NoUsage == [prompt |-> 0, completion |-> 0, total |-> 0]
TokenUsages == {NoUsage, [prompt |-> 150, completion |-> 50, total |-> 200]}

\* _estimateTokens(JSON.stringify(analysis) + template)
AnalysisTokens == 100

NoResult == [shape |-> "none", taskId |-> "", error |-> "", success |-> "", score |-> 0]

\* the object the catch block of index.js returns
FailureResult(task, message) ==
    [shape |-> "failure", taskId |-> task.id, error |-> message,
     success |-> "false", score |-> 0]

\* the object the pipeline returns at its end: no error and no success field
FullResult(task, score) ==
    [shape |-> "full", taskId |-> task.id, error |-> Undefined,
     success |-> Undefined, score |-> score]

Suspended(task, pc, tool) ==
    [task |-> task, pc |-> pc, tool |-> tool, implementation |-> JsUndefined,
     usage |-> NoUsage, failure |-> "", settled |-> "pending", result |-> NoResult]

Resolved(call, failure, result) ==
    [call EXCEPT !.pc = "done", !.failure = failure, !.settled = "resolved",
                 !.result = result]

Rejected(call, message) ==
    [call EXCEPT !.pc = "done", !.failure = message, !.settled = "rejected",
                 !.result = [NoResult EXCEPT !.error = message]]

\* TaskAnalyzer.analyzeTask: task.description?.toLowerCase() throws on a
\* description that is not a string
AnalysisError(task) ==
    IF task.description = "number"
    THEN "task.description?.toLowerCase is not a function" ELSE ""

\* ToolSelector.selectTool: task.description.toLowerCase() throws on an
\* absent description
SelectionError(task) ==
    IF task.description = "absent"
    THEN "Cannot read properties of undefined (reading 'toLowerCase')" ELSE ""

\* the tools selectTool may name, of which index.js connects claudeDirect only
SelectableTools == {"claudeDirect", "haiku"}
Connected == {"claudeDirect"}

\* validateTask(task).valid
ValidTask(task) == task.description = "text"

\* recordDelegatedCost, then completeTask, of the task the call tracks
RecordAndComplete(taskId, toolName, costs, score) ==
    LET delegated == WithDelegatedCost(tasks[taskId], toolName, costs)
        completed == Completed(delegated, score, now)
    IN  /\ tasks' = [tasks EXCEPT ![taskId] = completed]
        /\ delegatedCosts' = Put(delegatedCosts, taskId, delegated.delegated.total)
        /\ toolPerformance' =
              UpdateToolPerformance(toolPerformance, toolName,
                                    tasks[taskId].complexity, Total(costs))
        /\ historicalData' =
              Append(historicalData, HistoryEntry(taskId, completed, score, now))
        /\ solo' = [solo EXCEPT ![taskId] =
                        Completed(WithDelegatedCost(@, toolName, costs), score, now)]
        /\ recorded' = Put(recorded, taskId,
                           recorded[taskId] \cup
                               {[tool |-> toolName, total |-> Total(costs)]})
        /\ UNCHANGED <<directCosts, now>>

CostsOf(usage) ==
    [analysis |-> AnalysisTokens, delegation |-> usage.prompt,
     review |-> usage.completion]

\* index.js processTask up to its await: a throw is caught and the call
\* resolves to the failure object
ProcessTaskIndex(c, task, selectedTool) ==
    LET failure ==
            IF AnalysisError(task) # "" THEN AnalysisError(task)
            ELSE IF SelectionError(task) # "" THEN SelectionError(task)
            ELSE IF selectedTool \notin Connected
            THEN "Tool connector not found for " \o selectedTool
            ELSE IF ~HasTemplate(selectedTool, "general")
            THEN "Template not found for " \o selectedTool
            ELSE ""
    IN  /\ StartTask(task.id, task.complexity)
        /\ calls' = Put(calls, c,
                        IF failure = ""
                        THEN Suspended(task, "implementTask", selectedTool)
                        ELSE Resolved(Suspended(task, "done", selectedTool), failure,
                                      FailureResult(task, failure)))
        /\ UNCHANGED <<metrics, processorMetrics>>

\* ClientFeatures.tsx processTask up to its first await: a throw is caught,
\* recorded as a failure when the task has an id, and thrown again. In dev
\* mode the tool is boltDiy, for which templates.js holds no template
ProcessTaskClient(c, task) ==
    LET toolName == IF system.devMode THEN "boltDiy" ELSE "claudeSonnet"
        failure ==
            IF AnalysisError(task) # "" THEN AnalysisError(task)
            ELSE IF system.devMode THEN "Template not found for boltDiy"
            ELSE ""
    IN  /\ StartTask(task.id, task.complexity)
        /\ calls' = Put(calls, c,
                        IF failure = ""
                        THEN Suspended(task, "implementTask", toolName)
                        ELSE Rejected(Suspended(task, "done", toolName), failure))
        /\ metrics' = IF failure = "" THEN metrics
                      ELSE RecordTaskMetrics(metrics, task, 0, 0, FALSE, now)
        /\ UNCHANGED processorMetrics

\* TaskProcessor.processTask: buildPrompt is handed the filled template, a
\* string, and refuses it, so every call ends in the catch block
ProcessTaskProcessor(c, task) ==
    LET failure == IF ~ValidTask(task) THEN "Invalid task"
                   ELSE "Invalid task or template object"
    IN  /\ calls' = Put(calls, c, Rejected(Suspended(task, "done", "boltDiy"), failure))
        /\ processorMetrics' =
              [processorMetrics EXCEPT !.processed = @ + 1, !.failed = @ + 1]
        /\ UNCHANGED <<metrics, trackerVars>>

\* a caller invokes processTask(task); c numbers the calls
ProcessTask(c, task) ==
    /\ c = Cardinality(DOMAIN calls) + 1
    /\ \/ /\ system.variant = "index"
          /\ \E selectedTool \in SelectableTools : ProcessTaskIndex(c, task, selectedTool)
       \/ system.variant = "client" /\ ProcessTaskClient(c, task)
       \/ system.variant = "processor" /\ ProcessTaskProcessor(c, task)
    /\ UNCHANGED <<system, qualityVars, templateVars, utilVars>>

\* index.js after await toolConnector.implementTask: the Claude Direct
\* connector never rejects, it answers with success false when it has no
\* API key; the pipeline records, scores and completes either way
ImplementTaskReturnsIndex(c) ==
    LET call == calls[c]
        usage == IF system.apiKey THEN [prompt |-> 150, completion |-> 50, total |-> 200]
                 ELSE [prompt |-> 25, completion |-> 0, total |-> 25]
        impl == IF system.apiKey
                THEN JsObject([kind |-> "string", text |-> SimulatedResponse])
                ELSE JsObject(NoValue)
        score == AnalyzeQuality(impl).overallScore
    IN  /\ RecordAndComplete(call.task.id, call.tool, CostsOf(usage), score)
        /\ calls' = [calls EXCEPT ![c] =
                        Resolved([@ EXCEPT !.implementation = impl, !.usage = usage],
                                 IF system.apiKey THEN ""
                                 ELSE "No API key provided for Claude Direct",
                                 FullResult(call.task, score))]
        /\ UNCHANGED <<metrics, processorMetrics>>

\* ClientFeatures.tsx after await tool.implementTask: the Claude Sonnet
\* connector resolves, or rejects with the error of the API call or of a
\* response without a code block
ImplementTaskReturnsClient(c, response, usage) ==
    LET call == calls[c]
        failure == IF system.simulated \/ response = "code" THEN ""
                   ELSE IF response = "prose"
                   THEN "No code implementation found in response"
                   ELSE "Connection error."
        text == IF system.simulated THEN SimulatedImplementation
                ELSE ExtractedImplementation
    IN  /\ calls' = [calls EXCEPT ![c] =
                        IF failure = ""
                        THEN [@ EXCEPT !.pc = "executeTask",
                                       !.implementation =
                                           JsObject([kind |-> "string", text |-> text]),
                                       !.usage = usage]
                        ELSE Rejected(@, failure)]
        /\ metrics' = IF failure = "" THEN metrics
                      ELSE RecordTaskMetrics(metrics, call.task, 0, 0, FALSE, now)
        /\ UNCHANGED <<processorMetrics, trackerVars>>

\* the call resumes after await implementTask
ImplementTaskReturns(c, response, usage) ==
    /\ c \in DOMAIN calls
    /\ calls[c].pc = "implementTask"
    /\ \/ system.variant = "index" /\ ImplementTaskReturnsIndex(c)
       \/ system.variant = "client" /\ ImplementTaskReturnsClient(c, response, usage)
    /\ UNCHANGED <<system, qualityVars, templateVars, utilVars>>

\* ClientFeatures.tsx after await this.boltDiy.executeTask: on a rejection
\* the catch block records the failure and throws again; otherwise the
\* pipeline records the cost, scores, records the success and completes
ExecuteTaskReturns(c, ok) ==
    /\ c \in DOMAIN calls
    /\ calls[c].pc = "executeTask"
    /\ LET call == calls[c]
           quality1 == AnalyzeQuality(call.implementation)
           failure == IF system.simulated \/ ok THEN ""
                      ELSE "bolt.diy execution failed: Service Unavailable"
       IN  IF failure = ""
           THEN /\ RecordAndComplete(call.task.id, call.tool, CostsOf(call.usage),
                                     quality1.overallScore)
                /\ metrics' = RecordTaskMetrics(metrics, call.task, call.usage.total,
                                                quality1.overallScore, TRUE, now)
                /\ calls' = [calls EXCEPT ![c] =
                                Resolved(@, "", FullResult(call.task,
                                                           quality1.overallScore))]
           ELSE /\ metrics' = RecordTaskMetrics(metrics, call.task, 0, 0, FALSE, now)
                /\ calls' = [calls EXCEPT ![c] = Rejected(@, failure)]
                /\ UNCHANGED trackerVars
    /\ UNCHANGED <<system, processorMetrics, qualityVars, templateVars, utilVars>>

PipelineIdle ==
    /\ system = [variant |-> "index", devMode |-> FALSE, simulated |-> FALSE,
                 apiKey |-> TRUE]
    /\ calls = EmptyMap
    /\ metrics = NewMetrics
    /\ processorMetrics = [processed |-> 0, successful |-> 0, failed |-> 0,
                           averageTokens |-> FracZero, totalTokens |-> 0]

\* One step of the system: a call begins or resumes, a caller removes the
\* template of the connected tool, or time passes
PipelineStep ==
    \/ \E c \in 1..MaxCalls, task \in PipelineTasks : ProcessTask(c, task)
    \/ \E c \in 1..MaxCalls, response \in {"code", "prose", "error"},
          usage \in TokenUsages :
          ImplementTaskReturns(c, response, usage)
    \/ \E c \in 1..MaxCalls, ok \in BOOLEAN : ExecuteTaskReturns(c, ok)
    \/ /\ system.variant = "index"
       /\ DeleteTemplate("claudeDirect", "general")
       /\ UNCHANGED <<trackerVars, qualityVars, pipelineVars, utilVars>>
    \/ /\ now < MaxTime
       /\ Tick
       /\ UNCHANGED <<qualityVars, templateVars, pipelineVars, utilVars>>

----------------------------------------------------------------------------
(* fillTemplate: src/src/utils/template-builder.js                         *)
(* Strings are sequences of one-character strings; data and defaults are   *)
(* objects whose keys are placeholder names.                               *)

FillPieces == {<<"{", "a", "}">>, <<"{", "b", "}">>, <<"{", "a", "+", "}">>, <<"x">>}

FillTemplates ==
    {Flatten(ps) : ps \in UNION {[1..n -> FillPieces] : n \in 0..MaxFillPieces}}

\* a property name, from the characters a match captured
RECURSIVE NameOf(_)
NameOf(chars) == IF chars = <<>> THEN "" ELSE Head(chars) \o NameOf(Tail(chars))

\* the first "}" at or after position i, 0 when there is none
RECURSIVE FirstClose(_, _)
FirstClose(s, i) ==
    IF i > Len(s) THEN 0
    ELSE IF s[i] = "}" THEN i ELSE FirstClose(s, i + 1)

\* the exec loop over /\{([^}]+)\}/g: the captured names, in order
RECURSIVE ScanPlaceholders(_, _)
ScanPlaceholders(s, i) ==
    IF i > Len(s) THEN <<>>
    ELSE IF s[i] = "{"
    THEN LET j == FirstClose(s, i + 1)
         IN  IF j > i + 1
             THEN <<SubSeq(s, i + 1, j - 1)>> \o ScanPlaceholders(s, j + 1)
             ELSE ScanPlaceholders(s, i + 1)
    ELSE ScanPlaceholders(s, i + 1)

\* new RegExp(`\\{${placeholder}\\}`, 'g'): the name is pasted into the
\* pattern unescaped, so a "+" in it is a quantifier of what precedes it,
\* and a second "+" in a row is a syntax error
RECURSIVE CompileName(_, _)
CompileName(chars, pattern) ==
    IF chars = <<>>
    THEN [ok |-> TRUE, pattern |-> Append(pattern, [ch |-> "}", plus |-> FALSE])]
    ELSE IF Head(chars) = "+"
    THEN IF pattern[Len(pattern)].plus
         THEN [ok |-> FALSE, pattern |-> <<>>]
         ELSE CompileName(Tail(chars),
                          [pattern EXCEPT ![Len(pattern)].plus = TRUE])
    ELSE CompileName(Tail(chars), Append(pattern, [ch |-> Head(chars), plus |-> FALSE]))

PlaceholderRegex(chars) == CompileName(chars, <<[ch |-> "{", plus |-> FALSE]>>)

\* how many times ch repeats in s from position i on
RECURSIVE Run(_, _, _)
Run(s, i, ch) == IF i <= Len(s) /\ s[i] = ch THEN 1 + Run(s, i + 1, ch) ELSE 0

\* the position after the match of pattern[k..] at position i of s, -1 when
\* it does not match; a quantified element takes the longest run that lets
\* the rest match
RECURSIVE MatchFrom(_, _, _, _)
RECURSIVE TryRuns(_, _, _, _, _)
MatchFrom(pattern, k, s, i) ==
    IF k > Len(pattern) THEN i
    ELSE IF pattern[k].plus THEN TryRuns(pattern, k, s, i, Run(s, i, pattern[k].ch))
    ELSE IF i <= Len(s) /\ s[i] = pattern[k].ch THEN MatchFrom(pattern, k + 1, s, i + 1)
    ELSE -1
TryRuns(pattern, k, s, i, r) ==
    IF r < 1 THEN -1
    ELSE LET e == MatchFrom(pattern, k + 1, s, i + r)
         IN  IF e # -1 THEN e ELSE TryRuns(pattern, k, s, i, r - 1)

\* s.replace(regex, value) with the g flag
RECURSIVE ReplaceAll(_, _, _, _)
ReplaceAll(s, pattern, value, i) ==
    IF i > Len(s) THEN <<>>
    ELSE LET e == MatchFrom(pattern, 1, s, i)
         IN  IF e # -1 THEN value \o ReplaceAll(s, pattern, value, e)
             ELSE <<s[i]>> \o ReplaceAll(s, pattern, value, i + 1)

\* the loop over the placeholders found in the template
RECURSIVE FillEach(_, _, _, _)
FillEach(placeholders, filled, data, defaults) ==
    IF placeholders = <<>> THEN [threw |-> FALSE, text |-> filled]
    ELSE LET name == NameOf(Head(placeholders))
             regex == PlaceholderRegex(Head(placeholders))
         IN  IF name \in DOMAIN data \cup DOMAIN defaults
             THEN IF regex.ok
                  THEN FillEach(Tail(placeholders),
                                ReplaceAll(filled, regex.pattern,
                                           IF name \in DOMAIN data THEN data[name]
                                           ELSE defaults[name], 1),
                                data, defaults)
                  ELSE [threw |-> TRUE, text |-> filled]
             ELSE FillEach(Tail(placeholders), filled, data, defaults)

\* fillTemplate(template, data, defaults) of a string and two objects: an
\* exception is caught and the template is returned as it came
FillTemplate(template, data, defaults) ==
    LET r == FillEach(ScanPlaceholders(template, 1), template, data, defaults)
    IN  IF r.threw THEN template ELSE r.text

\* objects with the given optional keys and values
Objects(values) ==
    UNION {[K -> values] : K \in SUBSET {"a", "b", "a+"}}

FillData == Objects({<<"x">>, <<"{", "b", "}">>})
FillDefaultObjects == {EmptyMap, [k \in {"b"} |-> <<"y">>]}

FillPending(template, data, defaults) ==
    [template |-> template, data |-> data, defaults |-> defaults,
     status |-> "pending", output |-> <<>>]

FillIdle == fill = FillPending(<<>>, EmptyMap, EmptyMap)

FillTemplateCall ==
    /\ fill.status = "pending"
    /\ fill' = [fill EXCEPT !.status = "returned",
                            !.output = FillTemplate(fill.template, fill.data,
                                                    fill.defaults)]
    /\ UNCHANGED <<request, connector, validation, analysis, comparison,
                   trackerVars,
                   qualityVars, templateVars, pipelineVars>>

----------------------------------------------------------------------------
(* AiacdCoreClient.makeRequest: src/src/clients/aiacd-core-client.ts       *)
(* retry.operation is the operation object of the retry package: it holds  *)
(* the list of delays still to use and the errors of the failed attempts.  *)

\* config.retries as createConfig leaves it: the default 3 or an override
DefaultRetries == 3
RetryCounts == 0..MaxRetries

Factor == 2
MinTimeout == 1000
MaxTimeout == 10000

RECURSIVE Power(_, _)
Power(b, e) == IF e = 0 THEN 1 ELSE b * Power(b, e - 1)

Least(a, b) == IF a < b THEN a ELSE b

\* the delays retry.operation({retries, factor, minTimeout, maxTimeout})
\* prepares, in milliseconds
Timeouts(retries) ==
    [i \in 1..retries |-> Least(MinTimeout * Power(Factor, i - 1), MaxTimeout)]

\* what makes an attempt fail: fetch rejects, or the response is not ok
FailureMessages == {"network timeout", "API request failed"}

\* operation.mainError(): the error whose message is the most frequent, the
\* latest of them on a tie
RECURSIVE Count(_, _)
Count(errors, message) ==
    IF errors = <<>> THEN 0
    ELSE (IF Head(errors) = message THEN 1 ELSE 0) + Count(Tail(errors), message)

RECURSIVE MainErrorFrom(_, _, _, _)
MainErrorFrom(errors, i, mainError, mainErrorCount) ==
    IF i > Len(errors) THEN mainError
    ELSE LET count == Count(SubSeq(errors, 1, i), errors[i])
         IN  IF count >= mainErrorCount
             THEN MainErrorFrom(errors, i + 1, errors[i], count)
             ELSE MainErrorFrom(errors, i + 1, mainError, mainErrorCount)

MainError(errors) == MainErrorFrom(errors, 1, Null, 0)

NewRequest(retries) ==
    [ retries |-> retries,      \* config.retries
      state |-> "idle",         \* idle, attempting, waiting, resolved, rejected
      attempts |-> 0,           \* attempts started
      timeouts |-> <<>>,        \* delays the operation has left
      delays |-> <<>>,          \* delays waited so far
      errors |-> <<>>,          \* messages of the failed attempts
      result |-> Undefined ]    \* what the promise settled with

RequestIdle == request = NewRequest(DefaultRetries)

\* makeRequest: the operation is created and the first attempt starts
MakeRequest ==
    /\ request.state = "idle"
    /\ request' = [request EXCEPT !.state = "attempting", !.attempts = 1,
                                  !.timeouts = Timeouts(request.retries)]

\* the attempt throws: operation.retry(error) schedules the next attempt
\* when a delay is left, else the promise resolves with nothing
AttemptFailsSilently(message) ==
    /\ request.state = "attempting"
    /\ LET errors == Append(request.errors, message)
       IN  IF request.timeouts # <<>>
           THEN request' = [request EXCEPT !.state = "waiting", !.errors = errors,
                                           !.timeouts = Tail(@),
                                           !.delays = Append(@, Head(request.timeouts))]
           ELSE request' = [request EXCEPT !.state = "resolved", !.errors = errors]

\* fetch answers with an ok response: resolve(data)
AttemptSucceeds ==
    /\ request.state = "attempting"
    /\ request' = [request EXCEPT !.state = "resolved", !.result = "data"]

\* the attempt throws: operation.retry(error) schedules the next attempt
\* when a delay is left, else the promise rejects with the main error
AttemptFails(message) ==
    /\ request.state = "attempting"
    /\ LET errors == Append(request.errors, message)
       IN  IF request.timeouts # <<>>
           THEN request' = [request EXCEPT !.state = "waiting", !.errors = errors,
                                           !.timeouts = Tail(@),
                                           !.delays = Append(@, Head(request.timeouts))]
           ELSE request' = [request EXCEPT !.state = "rejected", !.errors = errors,
                                           !.result = MainError(errors)]

\* the timer operation.retry set fires: the next attempt starts
TimerFires ==
    /\ request.state = "waiting"
    /\ request' = [request EXCEPT !.state = "attempting", !.attempts = @ + 1]

RequestStep ==
    /\ \/ MakeRequest
       \/ AttemptSucceeds
       \/ \E message \in FailureMessages : AttemptFails(message)
       \/ TimerFires
    /\ UNCHANGED <<fill, connector, validation, analysis, comparison,
                   trackerVars,
                   qualityVars, templateVars, pipelineVars>>

----------------------------------------------------------------------------
(* The tool connectors' constructors: src/unnamed/part_001 (Claude Direct), *)
(* src/unnamed/part_002 (Claude Sonnet), src/unnamed/part_012 (bolt.diy)    *)

ConnectorKinds == {"claudeDirect", "claudeSonnet", "boltDiy"}

\* the config argument: apiKey and url given or not, devMode absent, false
\* or true
ConnectorConfigs ==
    [apiKey : BOOLEAN, url : BOOLEAN, devMode : {Undefined, "false", "true"}]

\* process.env: CLAUDE_API_KEY set, BOLT_DIY_URL and BOLT_DIY_API_KEY set,
\* NODE_ENV equal to 'development'
Environments == [claudeKey : BOOLEAN, bolt : BOOLEAN, development : BOOLEAN]

\* this.config after the constructor merged the argument over the defaults
Merged(kind, config, env) ==
    [ apiKey |-> config.apiKey
                   \/ (IF kind = "boltDiy" THEN env.bolt ELSE env.claudeKey),
      url |-> IF kind = "boltDiy" THEN config.url \/ env.bolt ELSE TRUE,
      devMode |-> IF kind = "claudeDirect" THEN FALSE
                  ELSE IF config.devMode = Undefined THEN env.development
                  ELSE config.devMode = "true" ]

\* whether the constructor throws
ConstructorThrows(kind, merged) ==
    CASE kind = "claudeSonnet" -> ~merged.devMode /\ ~merged.apiKey
      [] kind = "boltDiy" -> ~merged.devMode /\ (~merged.url \/ ~merged.apiKey)
      [] kind = "claudeDirect" -> FALSE

NoConnector(env) ==
    [env |-> env, kind |-> "none", status |-> "none",
     config |-> [apiKey |-> FALSE, url |-> FALSE, devMode |-> FALSE],
     taskCalls |-> 0, lastCall |-> "none"]

ConnectorIdle ==
    connector = NoConnector([claudeKey |-> FALSE, bolt |-> FALSE, development |-> FALSE])

\* new XConnector(config)
Construct(kind, config) ==
    /\ connector.status = "none"
    /\ LET merged == Merged(kind, config, connector.env)
       IN  connector' =
              [connector EXCEPT !.kind = kind, !.config = merged,
                                !.status = IF ConstructorThrows(kind, merged)
                                           THEN "threw" ELSE "constructed"]

\* implementTask (executeTask for bolt.diy) on the constructed connector:
\* simulated in dev mode; Claude Direct refuses without an API key and
\* simulates the call with one; the other two send the request, which
\* the service answers or fails
TaskCall(answered) ==
    /\ connector.status = "constructed"
    /\ connector.taskCalls < MaxTaskCalls
    /\ connector' =
          [connector EXCEPT
              !.taskCalls = @ + 1,
              !.lastCall =
                  IF connector.config.devMode THEN "simulated"
                  ELSE IF connector.kind = "claudeDirect"
                  THEN IF connector.config.apiKey THEN "simulated"
                       ELSE "No API key provided for Claude Direct"
                  ELSE IF answered THEN "answered" ELSE "failed"]

ConnectorStep ==
    /\ \/ \E kind \in ConnectorKinds, config \in ConnectorConfigs : Construct(kind, config)
       \/ \E answered \in BOOLEAN : TaskCall(answered)
    /\ UNCHANGED <<fill, request, validation, analysis, comparison,
                   trackerVars,
                   qualityVars, templateVars, pipelineVars>>

----------------------------------------------------------------------------
(* validateTask, validateObject: src/src/utils/validation.js               *)
(* A field value is a record: kind is its JavaScript type (Undefined for   *)
(* an absent field), text the characters of a string, items the elements   *)
(* of an array.                                                            *)

Absent == [kind |-> Undefined, text |-> "", items |-> <<>>]
Str(text) == [kind |-> "string", text |-> text, items |-> <<>>]
Num == [kind |-> "number", text |-> "", items |-> <<>>]
Obj == [kind |-> "object", text |-> "", items |-> <<>>]
Arr(items) == [kind |-> "array", text |-> "", items |-> items]

\* taskSchema of validateTask: the required fields and, per property, the
\* constraints (minLength 0 and items "" where the schema has none)
RequiredFields == <<"id", "description">>
TaskProperties ==
    << [field |-> "id", type |-> "string", minLength |-> 1,
        enum |-> {}, items |-> ""],
       [field |-> "description", type |-> "string", minLength |-> 10,
        enum |-> {}, items |-> ""],
       [field |-> "type", type |-> "string", minLength |-> 0,
        enum |-> {"ui", "logic", "design"}, items |-> ""],
       [field |-> "complexity", type |-> "string", minLength |-> 0,
        enum |-> {"low", "medium", "high"}, items |-> ""],
       [field |-> "features", type |-> "array", minLength |-> 0,
        enum |-> {}, items |-> "string"] >>

\* isDefined(object[field])
IsDefined(value) == value.kind \notin {Undefined, Null}

\* the loop over schema.required
RECURSIVE RequiredErrors(_, _, _)
RequiredErrors(object, fields, errors) ==
    IF fields = <<>> THEN errors
    ELSE RequiredErrors(object, Tail(fields),
                        IF IsDefined(object[Head(fields)]) THEN errors
                        ELSE Put(errors, Head(fields), Head(fields) \o " is required"))

\* validateObject(item, { properties: { item: constraints.items } }).valid:
\* an item that is not an object is refused as a whole; an object is looked
\* up for a property named item, which the modelled objects do not have
ItemValid(item) == item.kind = "object"

\* the errors the items of an array add, keyed field[i] with i from 0
RECURSIVE ItemErrors(_, _, _, _)
ItemErrors(field, items, i, errors) ==
    IF i > Len(items) THEN errors
    ELSE ItemErrors(field, items, i + 1,
                    IF ItemValid(items[i]) THEN errors
                    ELSE Put(errors, field \o "[" \o ToString(i - 1) \o "]",
                             "Invalid item"))

\* one pass of the loop over schema.properties; the enum constraint is not
\* read by validateObject
PropertyErrors(value, p, errors) ==
    IF ~IsDefined(value) THEN errors
    ELSE IF value.kind # p.type
    THEN Put(errors, p.field, p.field \o " must be a " \o p.type)
    ELSE LET short == value.kind = "string" /\ p.minLength > 0
                          /\ Len(value.text) < p.minLength
             e1 == IF short
                   THEN Put(errors, p.field,
                            p.field \o " must be at least " \o ToString(p.minLength)
                                \o " characters")
                   ELSE errors
         IN  IF value.kind = "array" /\ p.items # ""
             THEN ItemErrors(p.field, value.items, 1, e1)
             ELSE e1

RECURSIVE AllPropertyErrors(_, _, _)
AllPropertyErrors(object, properties, errors) ==
    IF properties = <<>> THEN errors
    ELSE AllPropertyErrors(object, Tail(properties),
                           PropertyErrors(object[Head(properties).field],
                                          Head(properties), errors))

\* validateTask(task) of an object: valid is false exactly when an error was
\* entered, and errors is null when there is none
ValidateTask(task) ==
    LET errors == AllPropertyErrors(task, TaskProperties,
                                    RequiredErrors(task, RequiredFields, EmptyMap))
    IN  [valid |-> errors = EmptyMap, errorsNull |-> errors = EmptyMap,
         errors |-> errors]

\* the tasks validateTask is called with
FeatureItems == {Str("component"), Obj}
FeatureLists == UNION {[1..n -> FeatureItems] : n \in 0..MaxFeatures}
ValidatedTasks ==
    [ id : {Absent, Num, Str(""), Str("t1")},
      description : {Absent, Num, Str("Fix login"), Str("Create a login form")},
      type : {Absent, Str("ui"), Str("banana")},
      complexity : {Absent, Str("low"), Str("extreme")},
      features : {Absent, Str("component")} \cup {Arr(l) : l \in FeatureLists} ]

NotValidated(task) ==
    [task |-> task, status |-> "pending",
     result |-> [valid |-> FALSE, errorsNull |-> FALSE, errors |-> EmptyMap]]

ValidationIdle ==
    validation = NotValidated([id |-> Absent, description |-> Absent, type |-> Absent,
                               complexity |-> Absent, features |-> Absent])

ValidateTaskCall ==
    /\ validation.status = "pending"
    /\ validation' = [validation EXCEPT !.status = "returned",
                                        !.result = ValidateTask(validation.task)]
    /\ UNCHANGED <<fill, request, connector, analysis, comparison,
                   trackerVars,
                   qualityVars, templateVars, pipelineVars>>

----------------------------------------------------------------------------
(* TaskAnalyzer.analyzeTask: src/src/orchestration/analyzer.js, and the    *)
(* TaskAnalyzer that follows the validation utilities in                   *)
(* src/src/utils/validation.js. A description is modelled by its kind      *)
(* (absent, a number, a string) and, for a string, the set of words it     *)
(* contains; description.includes(pattern) is membership in that set.      *)

\* analyzer.js: this.featurePatterns, this.typePatterns
FeaturePatterns ==
    << [name |-> "stateManagement",
        patterns |-> {"state", "store", "context", "reducer", "useState",
                        "useReducer"}],
       [name |-> "asyncOperations",
        patterns |-> {"async", "promise", "fetch", "api", "request",
                        "useEffect"}],
       [name |-> "accessibility",
        patterns |-> {"a11y", "accessibility", "wcag", "aria",
                        "keyboard navigation"}],
       [name |-> "validation",
        patterns |-> {"validation", "validate", "form", "input", "sanitize"}],
       [name |-> "typescript",
        patterns |-> {"typescript", "type-safe", "interface",
                        "type definition"}] >>

TypePatterns ==
    << [name |-> "ui",
        patterns |-> {"ui", "component", "interface", "view", "form",
                        "button", "input"}],
       [name |-> "logic",
        patterns |-> {"function", "utility", "algorithm", "hook", "service",
                        "calculation"}] >>

\* validation.js: this.featurePatterns, this.componentPatterns,
\* this.complexityIndicators
DetailedFeaturePatterns ==
    << [name |-> "stateManagement",
        patterns |-> {"state management", "state", "redux", "context",
                        "useState", "useReducer", "store"}],
       [name |-> "asyncOperations",
        patterns |-> {"async", "promise", "fetch", "api", "http", "request",
                        "useEffect", "axios"}],
       [name |-> "accessibility",
        patterns |-> {"a11y", "accessibility", "wcag", "aria",
                        "screen reader", "keyboard navigation",
                        "focus management"}],
       [name |-> "animations",
        patterns |-> {"animation", "transition", "motion", "keyframe",
                        "transform", "animate"}],
       [name |-> "validation",
        patterns |-> {"validation", "validate", "form validation",
                        "input validation", "error checking", "sanitize"}],
       [name |-> "typescript",
        patterns |-> {"typescript", "typed", "type-safe", "interface",
                        "type definition", "generics"}],
       [name |-> "responsiveDesign",
        patterns |-> {"responsive", "mobile", "tablet", "breakpoint",
                        "media query", "adaptive"}] >>

ComponentPatterns ==
    << [name |-> "ui",
        patterns |-> {"ui", "component", "interface", "view", "page", "form",
                        "button", "input", "modal", "card"}],
       [name |-> "logic",
        patterns |-> {"function", "utility", "helper", "algorithm",
                        "processor", "hook", "service", "calculation",
                        "transformation"}],
       [name |-> "design",
        patterns |-> {"design", "system", "theme", "style", "pattern",
                        "visual", "layout", "ui kit", "component library"}] >>

ComplexityIndicators ==
    << [name |-> "high",
        patterns |-> {"complex", "advanced", "sophisticated",
                        "comprehensive", "enterprise", "large-scale",
                        "multi-step", "intricate"}],
       [name |-> "low",
        patterns |-> {"simple", "basic", "minimal", "straightforward",
                        "small", "single", "elementary", "starter"}] >>

\* the words a modelled description is made of
Words == {"button", "function", "state", "fetch", "aria", "typescript", "simple",
          "theme", "form", "complex"}

AnalyzedDescriptions ==
    {[kind |-> Undefined, words |-> {}], [kind |-> "number", words |-> {}]}
        \cup {[kind |-> "string", words |-> w] : w \in SUBSET Words}

\* patterns.some(pattern => description.includes(pattern))
SomeIncluded(patterns, words) == patterns \cap words # {}

\* the name of the first entry of the table one of whose patterns the
\* description includes, fallback when there is none
RECURSIVE FirstMatching(_, _, _)
FirstMatching(table, words, fallback) ==
    IF table = <<>> THEN fallback
    ELSE IF SomeIncluded(Head(table).patterns, words) THEN Head(table).name
    ELSE FirstMatching(Tail(table), words, fallback)

\* detectFeatures: the names of all matching entries, in the table's order
RECURSIVE DetectFeatures(_, _)
DetectFeatures(table, words) ==
    IF table = <<>> THEN <<>>
    ELSE (IF SomeIncluded(Head(table).patterns, words) THEN <<Head(table).name>>
          ELSE <<>>) \o DetectFeatures(Tail(table), words)

\* the reduce of assessComplexity
RECURSIVE ComplexityScore(_)
ComplexityScore(features) ==
    IF features = <<>> THEN 0
    ELSE (IF Head(features) \in {"stateManagement", "asyncOperations"} THEN 2 ELSE 1)
            + ComplexityScore(Tail(features))

ScoreLevel(score) ==
    IF score <= 2 THEN "low" ELSE IF score <= 5 THEN "medium" ELSE "high"

\* Math.round(n / 10) of a natural number
RoundTenths(n) == (n + 5) \div 10

\* analyzer.js: estimateTokenBudget
FeatureBudget ==
    [f \in {"stateManagement", "asyncOperations", "accessibility", "validation",
            "typescript"} |->
        CASE f = "stateManagement" -> 500
          [] f = "asyncOperations" -> 400
          [] f = "typescript" -> 200
          [] OTHER -> 300]

RECURSIVE SumBudgets(_)
SumBudgets(features) ==
    IF features = <<>> THEN 0
    ELSE FeatureBudget[Head(features)] + SumBudgets(Tail(features))

BaseBudget(complexity) ==
    CASE complexity = "low" -> 1000
      [] complexity = "medium" -> 2000
      [] complexity = "high" -> 3000

\* a split that gives the implementation half of the total
SplitBudgetHalfImplementation(total) ==
    [total |-> total, analysis |-> RoundTenths(total * 2),
     implementation |-> RoundTenths(total * 5), review |-> RoundTenths(total * 2)]

SplitBudget(total) ==
    [total |-> total, analysis |-> RoundTenths(total * 2),
     implementation |-> RoundTenths(total * 6), review |-> RoundTenths(total * 2)]

\* analyzer.js: generateRecommendations
Recommendations(features, complexity) ==
    LET has(f) == \E i \in 1..Len(features) : features[i] = f
    IN  << "Use clear and descriptive variable names",
           "Include comprehensive error handling",
           "Add detailed comments for complex logic" >>
          \o (IF has("stateManagement")
              THEN <<"Implement efficient state management patterns">> ELSE <<>>)
          \o (IF has("asyncOperations")
              THEN << "Use async/await for better readability",
                      "Implement proper error handling for async operations" >>
              ELSE <<>>)
          \o (IF has("accessibility")
              THEN <<"Follow WCAG 2.1 guidelines", "Implement proper ARIA attributes">>
              ELSE <<>>)
          \o (IF complexity = "high"
              THEN << "Break down complex logic into smaller functions",
                      "Consider implementing unit tests" >>
              ELSE <<>>)

NoAnalysis ==
    [type |-> "", complexity |-> "", features |-> <<>>, estimatedLines |-> 0,
     tokenBudget |-> SplitBudget(0), recommendations |-> <<>>]

Returned(result) == [threw |-> FALSE, error |-> "", result |-> result]
Threw(error) == [threw |-> TRUE, error |-> error, result |-> NoAnalysis]

\* analyzer.js: analyzeTask. task.description?.toLowerCase() || '' reads an
\* absent description as '' and throws on one that is not a string; the
\* catch block logs and throws again. The Analysis has no estimatedLines.
AnalyzeTask(task) ==
    IF task.description.kind = "number"
    THEN Threw("task.description?.toLowerCase is not a function")
    ELSE LET words == task.description.words
             features == DetectFeatures(FeaturePatterns, words)
             complexity == ScoreLevel(ComplexityScore(features))
         IN  Returned([ type |-> FirstMatching(TypePatterns, words, "ui"),
                        complexity |-> complexity,
                        features |-> features,
                        estimatedLines |-> 0,
                        tokenBudget |->
                            SplitBudget(BaseBudget(complexity) + SumBudgets(features)),
                        recommendations |-> Recommendations(features, complexity) ])

\* validation.js: estimateCodeLines
BaseLines(type) ==
    CASE type = "ui" -> 50 [] type = "logic" -> 30 [] type = "design" -> 80

\* the complexity multiplier 0.7, 1.0, 1.5 in tenths
ComplexityMultiplier(complexity) ==
    CASE complexity = "low" -> 7 [] complexity = "medium" -> 10
      [] complexity = "high" -> 15

RECURSIVE FeatureLines(_)
FeatureLines(features) ==
    IF features = <<>> THEN 0
    ELSE (CASE Head(features) = "stateManagement" -> 20
            [] Head(features) = "asyncOperations" -> 15
            [] Head(features) = "validation" -> 10
            [] OTHER -> 5) + FeatureLines(Tail(features))

\* validation.js: analyzeTask. task.description.toLowerCase() throws on an
\* absent description and on one that is not a string, and nothing catches
\* it. The Analysis has no recommendations.
AnalyzeTaskDetailed(task) ==
    IF task.description.kind = Undefined
    THEN Threw("Cannot read properties of undefined (reading 'toLowerCase')")
    ELSE IF task.description.kind = "number"
    THEN Threw("task.description.toLowerCase is not a function")
    ELSE LET words == task.description.words
             type == FirstMatching(ComponentPatterns, words, "ui")
             features == DetectFeatures(DetailedFeaturePatterns, words)
             complexity ==
                 FirstMatching(ComplexityIndicators, words,
                               ScoreLevel(ComplexityScore(features)))
             lines == RoundTenths(BaseLines(type) * ComplexityMultiplier(complexity)
                                      + FeatureLines(features) * 10)
         IN  Returned([ type |-> type,
                        complexity |-> complexity,
                        features |-> features,
                        estimatedLines |-> lines,
                        tokenBudget |-> SplitBudget(lines * 10),
                        recommendations |-> <<>> ])

\* the two TaskAnalyzer classes
Analyzers == {"analyzer.js", "validation.js"}

NotAnalyzed(analyzer, task) == [analyzer |-> analyzer, task |-> task, calls |-> <<>>]

AnalysisIdle ==
    analysis = NotAnalyzed("analyzer.js",
                           [description |-> [kind |-> Undefined, words |-> {}]])

\* analyzer.analyzeTask(task): neither method writes to the analyzer or to
\* the task
AnalyzeTaskCall ==
    /\ Len(analysis.calls) < MaxAnalyses
    /\ analysis' =
          [analysis EXCEPT !.calls =
              Append(@, IF analysis.analyzer = "analyzer.js"
                        THEN AnalyzeTask(analysis.task)
                        ELSE AnalyzeTaskDetailed(analysis.task))]
    /\ UNCHANGED <<fill, request, connector, validation, comparison,
                   trackerVars,
                   qualityVars, templateVars, pipelineVars>>

----------------------------------------------------------------------------
(* ImplementationComparator: src/src/evaluation/comparator.js              *)
(*                                                                         *)
(* The comparator is built on the QualityAnalyzer above. An element of the *)
(* implementations array is a JavaScript value with, when it is an object, *)
(* its metadata.tool. Scores are in tenths of a point, as in Scores.       *)

\* implementation.metadata?.tool || 'unknown'
ToolOf(item) == IF item.tool = Undefined THEN "unknown" ELSE item.tool

\* analysis.analysis.detailedScores[metric]?.rawScore || 0
RawScore(entry, metric) ==
    IF metric \in DOMAIN entry.analysis.detailedScores
    THEN entry.analysis.detailedScores[metric].rawScore
    ELSE 0

\* one step of a stable descending sort of the indices 1..n by keys: index k
\* goes behind every index whose key is at least keys[k]; this variant puts
\* it in front of the indices with an equal key
RECURSIVE InsertDescendingBeforeEqual(_, _, _)
InsertDescendingBeforeEqual(sorted, k, keys) ==
    IF sorted = <<>> THEN <<k>>
    ELSE IF keys[Head(sorted)] > keys[k]
    THEN <<Head(sorted)>> \o InsertDescendingBeforeEqual(Tail(sorted), k, keys)
    ELSE <<k>> \o sorted

RECURSIVE InsertDescendingFrom(_, _, _)
InsertDescendingFrom(sorted, k, keys) ==
    IF sorted = <<>> THEN <<k>>
    ELSE IF keys[Head(sorted)] >= keys[k]
    THEN <<Head(sorted)>> \o InsertDescendingFrom(Tail(sorted), k, keys)
    ELSE <<k>> \o sorted

InsertDescending(sorted, k, keys) == InsertDescendingFrom(sorted, k, keys)

\* [...array].sort((a, b) => b.key - a.key): Array.prototype.sort is stable
\* (ECMAScript 2019), so elements with equal keys keep their order
RECURSIVE SortedIndices(_, _)
SortedIndices(n, keys) ==
    IF n = 0 THEN <<>>
    ELSE InsertDescending(SortedIndices(n - 1, keys), n, keys)

SortDescending(array, keys) ==
    LET p == SortedIndices(Len(array), keys)
    IN  [i \in 1..Len(array) |-> array[p[i]]]

RECURSIVE SumOf(_)
SumOf(numbers) == IF numbers = <<>> THEN 0 ELSE Head(numbers) + SumOf(Tail(numbers))

\* _compareMetrics: for each metric the scores by tool, ranked, with the top
\* performer, the average and the spread
CompareMetrics(analyses) ==
    [metric \in {MetricNames[i] : i \in 1..Len(MetricNames)} |->
        LET metricScores ==
                [i \in 1..Len(analyses) |->
                    [tool |-> analyses[i].tool, score |-> RawScore(analyses[i], metric)]]
            sortedScores ==
                SortDescending(metricScores,
                               [i \in 1..Len(analyses) |-> metricScores[i].score])
        IN  [scores |-> metricScores,
             ranked |-> sortedScores,
             topPerformer |-> sortedScores[1],
             averageScore |->
                 JsDiv(SumOf([i \in 1..Len(analyses) |-> metricScores[i].score]),
                       Len(analyses)),
             scoreSpread |-> sortedScores[1].score - sortedScores[Len(analyses)].score]]

\* a line of the findings: what it says, the names it mentions, its number
Finding(kind, names, value) == [kind |-> kind, names |-> names, value |-> value]

\* the tests on a raw score: a strength is a score of 8 or more, a weakness
\* one below 6, low functionality one below 7
Passes(test, score) ==
    CASE test = "strength" -> score >= 80
      [] test = "weakness" -> score < 60
      [] test = "low" -> score < 70

\* ranked.filter(item => test(score of item on metric)).length
CountPassing(ranked, metric, test) ==
    Len(SelectSeq(ranked, LAMBDA item : Passes(test, RawScore(item, metric))))

\* the metrics on which more than half of the implementations pass the test
MajorityMetrics(ranked, test) ==
    SelectSeq(MetricNames,
              LAMBDA metric : 2 * CountPassing(ranked, metric, test) > Len(ranked))

\* _findCommonStrengths and _findCommonWeaknesses
FindCommonStrengths(ranked) ==
    LET common == MajorityMetrics(ranked, "strength")
    IN  [i \in 1..Len(common) |->
            Finding("Common strength", <<common[i]>>,
                    CountPassing(ranked, common[i], "strength"))]

FindCommonWeaknesses(ranked) ==
    LET common == MajorityMetrics(ranked, "weakness")
    IN  [i \in 1..Len(common) |->
            Finding("Common weakness", <<common[i]>>,
                    CountPassing(ranked, common[i], "weakness"))]

\* the keys of toolCounts in insertion order
RECURSIVE Distinct(_)
Distinct(names) ==
    IF names = <<>> THEN <<>>
    ELSE <<Head(names)>> \o Distinct(SelectSeq(Tail(names), LAMBDA x : x # Head(names)))

\* _identifyPatterns
IdentifyPatterns(ranked, metricComparisons) ==
    LET topImplementations == SubSeq(ranked, 1, (Len(ranked) + 2) \div 3)
        topTools == [i \in 1..Len(topImplementations) |-> topImplementations[i].tool]
        dominantTools ==
            SelectSeq(Distinct(topTools),
                      LAMBDA tool :
                          Len(SelectSeq(topTools, LAMBDA x : x = tool)) > 1)
        overlap(metric) ==
            Len(SelectSeq(metricComparisons[metric].ranked,
                          LAMBDA item :
                              /\ item.score >= 80
                              /\ \E i \in 1..Len(topTools) : topTools[i] = item.tool))
        strongMetrics ==
            SelectSeq(MetricNames,
                      LAMBDA metric :
                          /\ overlap(metric) > 0
                          /\ overlap(metric) >= (Len(topImplementations) + 1) \div 2)
    IN  IF Len(topImplementations) = 0
        THEN <<Finding("Insufficient implementations to identify patterns", <<>>, 0)>>
        ELSE (IF Len(dominantTools) > 0
              THEN <<Finding("Top implementations tend to use", dominantTools, 0)>>
              ELSE <<>>)
             \o (IF Len(strongMetrics) > 0
                 THEN <<Finding("Top implementations excel in", strongMetrics, 0)>>
                 ELSE <<>>)

\* per-metric lines that are written whatever the spread
RECURSIVE MetricRecommendationsIgnoringSpread(_, _)
MetricRecommendationsIgnoringSpread(names, metricComparisons) ==
    IF names = <<>> THEN <<>>
    ELSE LET compared == metricComparisons[Head(names)]
         IN  (IF Len(compared.ranked) > 0 /\ compared.ranked[1].score >= 80
              THEN <<Finding("For metric, consider",
                             <<Head(names), compared.ranked[1].tool>>,
                             compared.ranked[1].score)>>
              ELSE <<>>)
             \o MetricRecommendationsIgnoringSpread(Tail(names), metricComparisons)

\* the per-metric lines of _generateRecommendations, in the order of the
\* metrics
RECURSIVE MetricRecommendations(_, _)
MetricRecommendations(names, metricComparisons) ==
    IF names = <<>> THEN <<>>
    ELSE LET compared == metricComparisons[Head(names)]
         IN  (IF /\ Len(compared.ranked) > 0
                 /\ compared.ranked[1].score >= 80
                 /\ compared.scoreSpread >= 20
              THEN <<Finding("For metric, consider",
                             <<Head(names), compared.ranked[1].tool>>,
                             compared.ranked[1].score)>>
              ELSE <<>>)
             \o MetricRecommendations(Tail(names), metricComparisons)

\* _generateRecommendations
GenerateRecommendations(ranked, metricComparisons, task) ==
    LET lowFunctionalityCount == CountPassing(ranked, "functionality", "low")
        problematicMetrics == MajorityMetrics(ranked, "weakness")
    IN  (IF Len(ranked) > 0
         THEN <<Finding("use as the primary tool", <<ranked[1].tool>>, 0)>>
         ELSE <<>>)
        \o MetricRecommendations(MetricNames, metricComparisons)
        \o (IF 2 * lowFunctionalityCount > Len(ranked)
            THEN <<Finding("Consider improving task descriptions", <<>>, 0)>>
            ELSE <<>>)
        \o (IF Len(problematicMetrics) > 0
            THEN <<Finding("Update templates to emphasize", problematicMetrics, 0)>>
            ELSE <<>>)

\* _generateFindings
GenerateFindings(ranked, metricComparisons, task) ==
    [overall |->
        << Finding("Analyzed implementations for task",
                   <<IF task.id = Undefined THEN "Unknown" ELSE task.id>>,
                   Len(ranked)),
           Finding("Best performing tool", <<ranked[1].tool>>,
                   ranked[1].analysis.overallScore) >>
        \o (IF Len(ranked) > 1
            THEN <<Finding("Score range", <<>>,
                           ranked[1].analysis.overallScore
                             - ranked[Len(ranked)].analysis.overallScore)>>
            ELSE <<>>),
     strengths |-> FindCommonStrengths(ranked),
     weaknesses |-> FindCommonWeaknesses(ranked),
     patterns |-> IdentifyPatterns(ranked, metricComparisons),
     recommendations |-> GenerateRecommendations(ranked, metricComparisons, task)]

NoFindings == [overall |-> <<>>, strengths |-> <<>>, weaknesses |-> <<>>,
               patterns |-> <<>>, recommendations |-> <<>>]

\* what the try block of compareImplementations throws, "" when it returns:
\* the guard on the array, the read of metadata of a null element in the
\* map, the read of task.id in _generateFindings
ComparisonError(implementations, task) ==
    IF implementations.kind = Undefined \/ implementations.items = <<>>
    THEN "No implementations provided for comparison"
    ELSE IF \E i \in 1..Len(implementations.items) :
                implementations.items[i].value.kind = "null"
    THEN "Cannot read properties of null (reading 'metadata')"
    ELSE IF task.kind = Undefined
    THEN "Cannot read properties of undefined (reading 'id')"
    ELSE ""

FailedComparison(message) ==
    [status |-> "returned", ranked |-> <<>>, metricComparisons |-> EmptyMap,
     findings |-> [NoFindings EXCEPT
                      !.overall = <<Finding("Comparison failed", <<message>>, 0)>>],
     bestTool |-> Undefined, implementationCount |-> 0, error |-> message]

\* the try block of compareImplementations
Compared(implementations, task) ==
    LET analyses ==
            [i \in 1..Len(implementations.items) |->
                [tool |-> ToolOf(implementations.items[i]),
                 analysis |-> AnalyzeQuality(implementations.items[i].value)]]
        ranked ==
            SortDescending(analyses,
                           [i \in 1..Len(analyses) |-> analyses[i].analysis.overallScore])
        metricComparisons == CompareMetrics(analyses)
    IN  [status |-> "returned", ranked |-> ranked,
         metricComparisons |-> metricComparisons,
         findings |-> GenerateFindings(ranked, metricComparisons, task),
         bestTool |-> ranked[1].tool,
         implementationCount |-> Len(implementations.items), error |-> ""]

\* compareImplementations without its catch block
CompareImplementationsUncaught(implementations, task) ==
    IF ComparisonError(implementations, task) # ""
    THEN [FailedComparison(ComparisonError(implementations, task))
            EXCEPT !.status = "threw", !.findings = NoFindings]
    ELSE Compared(implementations, task)

\* compareImplementations
CompareImplementations(implementations, task) ==
    IF ComparisonError(implementations, task) # ""
    THEN FailedComparison(ComparisonError(implementations, task))
    ELSE Compared(implementations, task)

\* the elements of the compared arrays: objects with and without code and
\* with and without metadata.tool, a string, null
ComparedTools == {"claude", "bolt", Undefined}
ComparedItems ==
    {[tool |-> t, value |-> v] :
        t \in ComparedTools,
        v \in {JsObject([kind |-> "string", text |-> <<"a">>]), JsObject(NoValue)}}
      \cup {[tool |-> Undefined, value |-> JsString(<<"a">>)],
            [tool |-> Undefined, value |-> JsNull]}
\* the implementations argument: an array, or absent
ComparedArrays ==
    {[kind |-> "array", items |-> items] :
        items \in UNION {[1..n -> ComparedItems] : n \in 0..MaxImplementations}}
      \cup {[kind |-> Undefined, items |-> <<>>]}
\* the task argument: an object with or without an id, or absent
ComparedTasks ==
    {[kind |-> "object", id |-> "t1"], [kind |-> "object", id |-> Undefined],
     [kind |-> Undefined, id |-> Undefined]}

NotCompared(implementations, task) ==
    [implementations |-> implementations, task |-> task, status |-> "pending",
     result |-> FailedComparison("")]

ComparisonIdle ==
    comparison = NotCompared([kind |-> Undefined, items |-> <<>>],
                             [kind |-> Undefined, id |-> Undefined])

\* comparator.compareImplementations(implementations, task): the comparator
\* keeps no state
CompareImplementationsCall ==
    /\ comparison.status = "pending"
    /\ comparison' =
          [comparison EXCEPT
              !.status = "called",
              !.result = CompareImplementations(comparison.implementations,
                                                comparison.task)]
    /\ UNCHANGED <<fill, request, connector, validation, analysis, trackerVars,
                   qualityVars, templateVars, pipelineVars>>

----------------------------------------------------------------------------
(* Steps and specifications *)

\* One call of the tracker's interface with arguments from the given sets.
\* The log and the counters grow without limit in the code; maxH, maxD and
\* maxT cap them for the search.
TrackerStep(ids, complexities, directs, breakdowns, tools, maxH, maxD, maxT) ==
    \/ \E id \in ids, c \in complexities :
          StartTask(id, c) /\ UNCHANGED otherVars
    \/ \E id \in ids, n \in directs :
          RecordDirectCost(id, n) /\ UNCHANGED otherVars
    \/ \E id \in ids, tl \in tools, c \in breakdowns :
          /\ DelegationCount < maxD
          /\ RecordDelegatedCost(id, tl, c)
          /\ UNCHANGED otherVars
    \/ \E id \in ids, q \in QualityScores :
          /\ Len(historicalData) < maxH
          /\ CompleteTask(id, q)
          /\ UNCHANGED otherVars
    \/ now < maxT /\ Tick /\ UNCHANGED otherVars

UtilIdle ==
    FillIdle /\ RequestIdle /\ ConnectorIdle /\ ValidationIdle /\ AnalysisIdle
        /\ ComparisonIdle

Init == TrackerInit /\ QualityIdle /\ TemplateInit /\ PipelineIdle /\ UtilIdle

\* one task, followed through restarts and repeated completions
Next ==
    TrackerStep({"t1"}, {Undefined}, DirectTokens, DelegatedBreakdowns, {"haiku"},
                MaxHistory, MaxDelegations, MaxTime)
Spec == Init /\ [][Next]_vars

\* one task of every complexity, for the efficiency comparison
NextEfficiency ==
    TrackerStep({"t1"}, Complexities \cup {Undefined}, DirectTokens,
                {MediumBreakdown}, {"haiku"}, EffMaxHistory, EffMaxDelegations,
                MaxTime)
SpecEfficiency == Init /\ [][NextEfficiency]_vars

\* one task completed again and again, for the trend analysis
NextTrend ==
    TrackerStep({"t1"}, {Undefined}, {1200}, {MediumBreakdown}, {"haiku"},
                TrendMaxHistory, TrendMaxDelegations, MaxTime)
SpecTrend == Init /\ [][NextTrend]_vars

\* two tasks whose calls interleave
NextPair ==
    TrackerStep(TaskIds, {Undefined}, DirectTokens, {MediumBreakdown}, {"haiku"},
                PairMaxHistory, PairMaxDelegations, MaxTime)
SpecPair == Init /\ [][NextPair]_vars

\* one task with several delegated recordings
NextBest ==
    TrackerStep({"t1"}, {Undefined}, DirectTokens, DelegatedBreakdowns, Tools,
                BestMaxHistory, BestMaxDelegations, MaxTime)
SpecBest == Init /\ [][NextBest]_vars

\* analyzeQuality applied to every implementation of the input domain
InitQuality ==
    /\ TrackerInit
    /\ TemplateInit
    /\ PipelineIdle
    /\ UtilIdle
    /\ implementation \in Implementations
    /\ quality = Pending
NextQuality == AnalyzeQualityCall
SpecQuality == InitQuality /\ [][NextQuality]_vars

\* the template registry under creations, updates, deletions and fills
NextTemplate == TemplateStep
SpecTemplate == Init /\ [][NextTemplate]_vars

\* processTask calls on each of the three systems
InitProcess ==
    /\ TrackerInit
    /\ QualityIdle
    /\ TemplateInit
    /\ system \in Systems
    /\ calls = EmptyMap
    /\ metrics = NewMetrics
    /\ processorMetrics = [processed |-> 0, successful |-> 0, failed |-> 0,
                           averageTokens |-> FracZero, totalTokens |-> 0]
    /\ UtilIdle
NextProcess == PipelineStep
SpecProcess == InitProcess /\ [][NextProcess]_vars

\* creation, update and deletion of templates, built-in and new
NextRegistry == RegistryStep
SpecRegistry == Init /\ [][NextRegistry]_vars

\* recordTaskMetrics calls on a new MetricsCollector
NextMetrics == MetricsStep
SpecMetrics == Init /\ [][NextMetrics]_vars

\* one request of a client configured with each retry count; an attempt
\* settles (fetch is given config.timeout) and a timer that was set fires
InitRequest ==
    /\ TrackerInit
    /\ QualityIdle
    /\ TemplateInit
    /\ PipelineIdle
    /\ FillIdle
    /\ \E retries \in RetryCounts : request = NewRequest(retries)
    /\ ConnectorIdle
    /\ ValidationIdle
    /\ AnalysisIdle
    /\ ComparisonIdle
NextRequest == RequestStep
SpecRequest ==
    /\ InitRequest
    /\ [][NextRequest]_vars
    /\ WF_request(AttemptSucceeds \/ \E message \in FailureMessages : AttemptFails(message))
    /\ WF_request(TimerFires)

\* one connector constructed under each environment, and calls on it
InitConnector ==
    /\ TrackerInit
    /\ QualityIdle
    /\ TemplateInit
    /\ PipelineIdle
    /\ FillIdle
    /\ RequestIdle
    /\ \E env \in Environments : connector = NoConnector(env)
    /\ ValidationIdle
    /\ AnalysisIdle
    /\ ComparisonIdle
NextConnector == ConnectorStep
SpecConnector == InitConnector /\ [][NextConnector]_vars

\* one validateTask call on each task
InitValidation ==
    /\ TrackerInit
    /\ QualityIdle
    /\ TemplateInit
    /\ PipelineIdle
    /\ FillIdle
    /\ RequestIdle
    /\ ConnectorIdle
    /\ \E task \in ValidatedTasks : validation = NotValidated(task)
    /\ AnalysisIdle
    /\ ComparisonIdle
NextValidation == ValidateTaskCall
SpecValidation == InitValidation /\ [][NextValidation]_vars

\* analyzeTask calls of each analyzer on each task
InitAnalysis ==
    /\ TrackerInit
    /\ QualityIdle
    /\ TemplateInit
    /\ PipelineIdle
    /\ FillIdle
    /\ RequestIdle
    /\ ConnectorIdle
    /\ ValidationIdle
    /\ \E analyzer \in Analyzers, description \in AnalyzedDescriptions :
          analysis = NotAnalyzed(analyzer, [description |-> description])
    /\ ComparisonIdle
NextAnalysis == AnalyzeTaskCall
SpecAnalysis == InitAnalysis /\ [][NextAnalysis]_vars

\* one compareImplementations call on each array and task
InitComparison ==
    /\ TrackerInit
    /\ QualityIdle
    /\ TemplateInit
    /\ PipelineIdle
    /\ FillIdle
    /\ RequestIdle
    /\ ConnectorIdle
    /\ ValidationIdle
    /\ AnalysisIdle
    /\ \E implementations \in ComparedArrays, task \in ComparedTasks :
          comparison = NotCompared(implementations, task)
NextComparison == CompareImplementationsCall
SpecComparison == InitComparison /\ [][NextComparison]_vars

\* one fillTemplate call on each template, data and defaults
InitFill ==
    /\ TrackerInit
    /\ QualityIdle
    /\ TemplateInit
    /\ PipelineIdle
    /\ \E template \in FillTemplates, data \in FillData,
          defaults \in FillDefaultObjects :
          fill = FillPending(template, data, defaults)
    /\ RequestIdle
    /\ ConnectorIdle
    /\ ValidationIdle
    /\ AnalysisIdle
    /\ ComparisonIdle
NextFill == FillTemplateCall
SpecFill == InitFill /\ [][NextFill]_vars

----------------------------------------------------------------------------
(* Properties of the TokenTracker *)

SetMin(S) == CHOOSE x \in S : \A y \in S : x <= y

\* C1: for every started task with delegated costs recorded, delegated.total
\* is the minimum of the totals recorded since it was started, and
\* delegated.toolName is the tool of a call that recorded that minimum.
C1_BestIsMinimumRecorded ==
    \A id \in DOMAIN tasks :
        recorded[id] # {} =>
            LET least == SetMin({r.total : r \in recorded[id]})
            IN  /\ tasks[id].delegated.total = least
                /\ \E r \in recorded[id] :
                      r.total = least /\ r.tool = tasks[id].delegated.toolName

\* C2 as stated: completed is terminal, no call puts a completed task back
\* into a non-completed state.
C2_CompletedIsTerminal ==
    [][\A id \in DOMAIN tasks : tasks[id].completed => tasks'[id].completed]_vars

\* C2 as amended: a completed task stays completed under every call except a
\* startTask on its own id, which replaces the record by a fresh one.
C2_CompletedUntilRestarted ==
    [][\A id \in DOMAIN tasks :
          (tasks[id].completed /\ ~ \E c \in Complexities \cup {Undefined} : StartTask(id, c))
              => tasks'[id].completed]_vars

\* a cost was recorded for a task after its completion, and it is still completed
C2_Witness ==
    \E id \in DOMAIN tasks :
        /\ tasks[id].completed
        /\ \E i \in 1..Len(historicalData) :
              /\ historicalData[i].taskId = id
              /\ historicalData[i].directTokens # tasks[id].direct

\* C3: the efficiency ratio a completeTask call writes (to the task's metrics
\* and to the historical record) is direct / delegated.total when both are
\* positive at that completion and 0 otherwise.
C3_RatioOnlyWhenBothPositive ==
    \A i \in 1..Len(historicalData) :
        LET e == historicalData[i]
        IN  e.efficiencyRatio =
                IF e.directTokens > 0 /\ e.delegatedTokens > 0
                THEN Frac(e.directTokens, e.delegatedTokens)
                ELSE FracZero

\* the weight the claim gives a complexity, in tenths
ClaimedWeight(c) ==
    CASE c = "low" -> 8 [] c = "medium" -> 10 [] c = "high" -> 12 [] OTHER -> 10

RECURSIVE RatioSum(_, _, _)
RatioSum(data, from, to) ==
    IF from > to THEN FracZero
    ELSE FracAdd(data[from].efficiencyRatio, RatioSum(data, from + 1, to))

CompletedTasks == {id \in DOMAIN tasks : tasks[id].completed}

\* the first-third versus last-third comparison of the log, in log order
ComparesThirds(trend) ==
    LET n == Len(historicalData)
        k == n \div 3
        firstSum == RatioSum(historicalData, 1, k)
        lastSum == RatioSum(historicalData, n - k + 1, n)
    IN  /\ \A i \in 1..(n - 1) :
              historicalData[i].timestamp <= historicalData[i + 1].timestamp
        /\ trend.trend \in {"improving", "declining"}
        /\ trend.trend = "improving" <=> FracLess(firstSum, lastSum)
        /\ trend.firstGroupAvg = ToFixed2(FracDivInt(firstSum, k))
        /\ trend.lastGroupAvg = ToFixed2(FracDivInt(lastSum, k))

\* C6 as stated: trendAnalysis is the 'insufficient data' sentinel
\* (improvement 0) whenever fewer than 3 tasks have been completed, and a
\* first-third versus last-third comparison once at least 3 have been.
C6_TrendNeedsThreeTasks ==
    /\ Cardinality(CompletedTasks) < 3 => AnalyzeTrends = InsufficientData
    /\ Cardinality(CompletedTasks) >= 3 => ComparesThirds(AnalyzeTrends)

\* C6 as amended: trendAnalysis is the sentinel whenever the historical log
\* holds fewer than 3 records (one per completeTask call on a known id), and
\* the comparison of its first and last third, in timestamp order, otherwise.
C6_TrendNeedsThreeRecords ==
    /\ Len(historicalData) < 3 => AnalyzeTrends = InsufficientData
    /\ Len(historicalData) >= 3 => ComparesThirds(AnalyzeTrends)

\* three completions are logged and the last is more efficient than the first
C6_Witness ==
    /\ Len(historicalData) >= 3
    /\ AnalyzeTrends.trend = "improving"

\* C7: under any interleaving of calls for distinct task ids, the record of
\* each id is the one a tracker that saw only that id's calls would hold.
C7_TasksIndependent ==
    /\ DOMAIN tasks = DOMAIN solo
    /\ \A id \in DOMAIN tasks : tasks[id] = solo[id]

\* both tasks are tracked, one completed with costs and the other not
C7_Witness ==
    /\ DOMAIN tasks = TaskIds
    /\ tasks["t1"].completed /\ ~ tasks["t2"].completed
    /\ tasks["t1"].direct # tasks["t2"].direct
    /\ tasks["t1"].delegated.toolName # tasks["t2"].delegated.toolName
    /\ tasks["t2"].delegated.total > 0

\* C5: no call removes a task id from the task map, the historical log only
\* grows at its end, and a completeTask call on a known id appends exactly
\* one entry holding the task's direct cost, delegated total and best tool.
C5_HistoryAppendOnly ==
    [][/\ DOMAIN tasks \subseteq DOMAIN tasks'
       /\ Len(historicalData') >= Len(historicalData)
       /\ SubSeq(historicalData', 1, Len(historicalData)) = historicalData
       /\ \A id \in DOMAIN tasks, q \in QualityScores :
             CompleteTask(id, q) =>
                /\ Len(historicalData') = Len(historicalData) + 1
                /\ LET e == historicalData'[Len(historicalData')]
                   IN  /\ e.taskId = id
                       /\ e.directTokens = tasks[id].direct
                       /\ e.delegatedTokens = tasks[id].delegated.total
                       /\ e.bestTool = tasks[id].delegated.toolName
                       /\ e.qualityScore = q]_vars

\* two completions of a task were logged with different costs
C5_Witness ==
    /\ Len(historicalData) >= 2
    /\ historicalData[1].taskId = historicalData[2].taskId
    /\ historicalData[1].directTokens # historicalData[2].directTokens
    /\ historicalData[2].delegatedTokens > 0

----------------------------------------------------------------------------
(* Properties of the QualityAnalyzer *)

\* C9: analyzeQuality never throws: for every implementation argument (a
\* string with or without a fenced code block, an object with or without an
\* implementation string, an empty string, null or undefined) the call
\* returns a result with a numeric overallScore, and a result that reports
\* a failure has score 0 and exactly one weakness, which carries the error
\* message.
C9_AnalyzeQualityNeverThrows ==
    quality.status # "pending" =>
        /\ quality.status = "returned"
        /\ quality.error # "" =>
              /\ quality.overallScore = 0
              /\ quality.weaknesses = <<"Analysis failed: " \o quality.error>>

----------------------------------------------------------------------------
(* Properties of the TemplateManager *)

\* the value the fill policy gives one token of the body: the task's field
\* of that name when the task has it, else the template's default for that
\* name, else the token itself
PolicyValue(token, task, defaults) ==
    LET names == {n \in DOMAIN task \cup Keys(defaults) : Placeholder(n) = token}
    IN  IF names = {} THEN <<token>>
        ELSE LET name == CHOOSE n \in names : TRUE
             IN  IF name \in DOMAIN task THEN task[name]
                 ELSE ValueOf(defaults, name)

RECURSIVE PolicyFill(_, _, _)
PolicyFill(body, task, defaults) ==
    IF body = <<>> THEN <<>>
    ELSE PolicyValue(Head(body), task, defaults)
            \o PolicyFill(Tail(body), task, defaults)

\* C10: getTemplate(tool, type, task) on a registered (tool, type) returns
\* the stored body with every {name} token replaced: each occurrence by the
\* task's field of that name when the task has it (whatever its value),
\* else by the template's default for that name, and left as the literal
\* {name} only when neither exists.
C10_GetTemplateFillsEveryToken ==
    (templateCall.op = "getTemplate"
        /\ HasTemplate(templateCall.tool, templateCall.type)) =>
        LET t == templates[templateCall.tool][templateCall.type]
        IN  /\ templateCall.result = "string"
            /\ templateCall.text = PolicyFill(t.template, templateCall.task, t.defaults)

\* every (tool, type) pair but the given one is registered after the step
\* exactly when it was before it, with the same template
OthersUntouched(tool, type) ==
    \A t \in DOMAIN templates \cup DOMAIN templates' :
        \A ty \in UNION {DOMAIN templates[x] : x \in DOMAIN templates}
                    \cup UNION {DOMAIN templates'[x] : x \in DOMAIN templates'} :
            <<t, ty>> # <<tool, type>> =>
                /\ HasTemplate(t, ty)' = HasTemplate(t, ty)
                /\ HasTemplate(t, ty) => templates'[t][ty] = templates[t][ty]

----------------------------------------------------------------------------
(* Properties of the MetricsCollector *)

RECURSIVE SumScores(_)
SumScores(history) ==
    IF history = <<>> THEN 0
    ELSE history[Len(history)].score + SumScores(SubSeq(history, 1, Len(history) - 1))

\* C14: quality.average is a running mean: after any sequence of n
\* recordTaskMetrics calls (several calls for one task id and failure
\* records scored 0 included) it equals the arithmetic mean of the n
\* recorded overallScore values.
C14_QualityAverageIsMean ==
    LET history == metrics.quality.history
    IN  history # <<>> =>
            metrics.quality.average = Frac(SumScores(history), Len(history))

\* C15: after every recordTaskMetrics call, for any recorded token usage
\* (results without tokenUsage, such as failure records, included),
\* efficiency.current is the constant 6 and the efficiency-history entry
\* the call appended has efficiency 6.
C15_EfficiencyIsSix ==
    LET history == metrics.efficiency.history
    IN  history # <<>> =>
            /\ metrics.efficiency.current = <<6, 1>>
            /\ history[Len(history)].efficiency = <<6, 1>>

----------------------------------------------------------------------------
(* Properties of the AiacdCoreClient *)

Settled == request.state \in {"resolved", "rejected"}

\* C16: every request terminates with bounded retry: makeRequest performs
\* at most retries + 1 attempts, resolves with the response of the first
\* successful attempt without attempting again, and when every attempt
\* fails rejects with an error to the caller; it never resolves silently
\* and never stays pending.
C16_RequestTerminates ==
    /\ [](/\ request.attempts <= request.retries + 1
          /\ request.state = "resolved" =>
                /\ request.result = "data"
                /\ Len(request.errors) = request.attempts - 1
          /\ request.state = "rejected" =>
                /\ request.attempts = request.retries + 1
                /\ Len(request.errors) = request.attempts
                /\ request.result \in FailureMessages)
    /\ [][Settled => request' = request]_vars
    /\ (request.state # "idle") ~> Settled

\* the request of a client with two retries was rejected after three
\* failed attempts
C16_Witness ==
    /\ request.retries = 2
    /\ request.state = "rejected"
    /\ request.attempts = 3
    /\ request.delays = <<1000, 2000>>

\* C17: failed requests are retried with exponential backoff whose first
\* delay is 1 second, each later delay double the previous one, no delay
\* above 60 seconds, and at most 5 retries per request.
C17_BackoffSchedule ==
    LET delays == request.delays
    IN  /\ delays # <<>> => delays[1] = 1000
        /\ \A i \in 2..Len(delays) : delays[i] = 2 * delays[i - 1]
        /\ \A i \in 1..Len(delays) : delays[i] <= 60000
        /\ Len(delays) <= 5

----------------------------------------------------------------------------
(* Properties of the tool connectors *)

HasCredentials ==
    connector.config.apiKey /\ connector.config.url

\* C18: missing credentials are a construction-time fatal error:
\* constructing any tool connector outside dev mode without its required
\* API key (or URL) throws immediately, so no connector without credentials
\* ever exists and no task call is ever attempted on one.
C18_NoConnectorWithoutCredentials ==
    (connector.status # "none" /\ ~connector.config.devMode /\ ~HasCredentials) =>
        /\ connector.status = "threw"
        /\ connector.taskCalls = 0

----------------------------------------------------------------------------
(* Properties of validateTask *)

\* the tasks the contract accepts
WellFormed(task) ==
    /\ task.id.kind = "string" /\ Len(task.id.text) >= 1
    /\ task.description.kind = "string" /\ Len(task.description.text) >= 10
    /\ task.type = Absent \/ (task.type.kind = "string"
                                /\ task.type.text \in {"ui", "logic", "design"})
    /\ task.complexity = Absent
          \/ (task.complexity.kind = "string"
                /\ task.complexity.text \in {"low", "medium", "high"})
    /\ task.features = Absent
          \/ (task.features.kind = "array"
                /\ \A i \in 1..Len(task.features.items) :
                      task.features.items[i].kind = "string")

\* C19: validateTask returns {valid: true, errors: null} exactly for tasks
\* that have a string id of at least 1 character, a string description of
\* at least 10 characters and, where present, a type in {ui, logic, design},
\* a complexity in {low, medium, high} and a features array whose items are
\* all strings; every other task is rejected with valid = false and a
\* per-field error entry.
C19_ValidateTaskAcceptsWellFormed ==
    validation.status = "returned" =>
        IF WellFormed(validation.task)
        THEN validation.result.valid /\ validation.result.errorsNull
        ELSE /\ ~validation.result.valid
             /\ ~validation.result.errorsNull
             /\ validation.result.errors # EmptyMap

----------------------------------------------------------------------------
(* Properties of analyzeTask *)

\* C20: analyzeTask never fails and has no side effects: for every task
\* object, one whose description is absent included, it returns an Analysis
\* (the absent field read as empty), and it returns an equal Analysis when
\* it is called again on the same task.
C20_AnalyzeTaskNeverFails ==
    /\ \A i \in 1..Len(analysis.calls) :
          analysis.task.description.kind # "number" => ~analysis.calls[i].threw
    /\ \A i, j \in 1..Len(analysis.calls) :
          analysis.calls[i].result = analysis.calls[j].result

----------------------------------------------------------------------------
(* Properties of processTask *)

\* C8: processTask never rejects: whenever a step of the pipeline (analysis,
\* tool or template lookup, tool call, execution, quality analysis) fails
\* for a task, the promise the call returned resolves to a result object
\* that carries the task's id, the message of the error and success = false;
\* the exception is not propagated to the caller.
C8_ProcessTaskNeverRejects ==
    \A c \in DOMAIN calls :
        /\ calls[c].settled # "rejected"
        /\ (calls[c].settled = "resolved" /\ calls[c].failure # "") =>
              /\ calls[c].result.taskId = calls[c].task.id
              /\ calls[c].result.error = calls[c].failure
              /\ calls[c].result.success = "false"

----------------------------------------------------------------------------
(* Properties of fillTemplate *)

\* the characters of a key
KeyChars == [k \in {"a", "b", "a+"} |->
                IF k = "a+" THEN <<"a", "+">> ELSE <<k>>]

\* the placeholder of key k as it is written in a template
Written(k) == <<"{">> \o KeyChars[k] \o <<"}">>

Contains(s, sub) ==
    \E i \in 1..Len(s) : i + Len(sub) - 1 <= Len(s)
                           /\ SubSeq(s, i, i + Len(sub) - 1) = sub

\* C11: for every template string, data object and defaults object, the
\* output of fillTemplate(template, data, defaults) contains no placeholder
\* {p} whose name p is a key of data or of defaults (also when a substituted
\* value itself contains brace-delimited text), and every placeholder of the
\* template whose name is in neither remains literally in the output.
C11_FillTemplateResolvesKnownNames ==
    fill.status = "returned" =>
        LET known == DOMAIN fill.data \cup DOMAIN fill.defaults
        IN  /\ \A k \in known : ~Contains(fill.output, Written(k))
            /\ \A k \in DOMAIN KeyChars \ known :
                  Contains(fill.template, Written(k)) =>
                      Contains(fill.output, Written(k))

----------------------------------------------------------------------------
(* Properties of estimateTokenBudget *)

\* C21: for every task that analyzeTask accepts, the analysis,
\* implementation and review components of the token budget differ from
\* tokenBudget.total by at most 1.
C21_BudgetComponentsSumToTotal ==
    \A i \in 1..Len(analysis.calls) :
        ~analysis.calls[i].threw =>
            LET budget == analysis.calls[i].result.tokenBudget
            IN  Abs(budget.analysis + budget.implementation + budget.review
                      - budget.total) <= 1

\* an accepted task with detected features under each of the two analyzers
C21_Witness ==
    /\ Len(analysis.calls) > 0
    /\ ~analysis.calls[1].threw
    /\ Len(analysis.calls[1].result.features) >= 2
    /\ analysis.calls[1].result.tokenBudget.total > 1000
    /\ analysis.analyzer = "validation.js"

----------------------------------------------------------------------------
(* Properties of compareImplementations *)

\* the comparison that was called went through its try block
ComparedThrough == comparison.status = "called" /\ comparison.result.error = ""

\* the tool and the overall score of the i-th implementation passed in
GivenTool(i) == ToolOf(comparison.implementations.items[i])
GivenScore(i) ==
    AnalyzeQuality(comparison.implementations.items[i].value).overallScore

\* the bijections of 1..n
Orderings(n) ==
    {p \in [1..n -> 1..n] : \A i, j \in 1..n : p[i] = p[j] => i = j}

\* C22: compareImplementations ranks stably: ranked is a permutation of the
\* analysed implementations sorted by descending overallScore in which
\* implementations with equal scores keep their input order, and bestTool
\* is the tool name of the first ranked entry, that is, of the earliest
\* highest-scoring implementation.
C22_RankedStable ==
    ComparedThrough =>
        LET n == Len(comparison.implementations.items)
            ranked == comparison.result.ranked
        IN  /\ Len(ranked) = n
            /\ \E p \in Orderings(n) :
                  /\ \A i \in 1..n :
                        /\ ranked[i].tool = GivenTool(p[i])
                        /\ ranked[i].analysis.overallScore = GivenScore(p[i])
                  /\ \A i, j \in 1..n :
                        i < j => \/ GivenScore(p[i]) > GivenScore(p[j])
                                 \/ /\ GivenScore(p[i]) = GivenScore(p[j])
                                    /\ p[i] < p[j]
            /\ comparison.result.bestTool = ranked[1].tool
            /\ \E k \in 1..n :
                  /\ comparison.result.bestTool = GivenTool(k)
                  /\ \A i \in 1..n : GivenScore(i) <= GivenScore(k)
                  /\ \A i \in 1..(k - 1) : GivenScore(i) < GivenScore(k)

\* three implementations were ranked: a failed one first in the input, then
\* two of different tools with the same positive score
C22_Witness ==
    /\ ComparedThrough
    /\ Len(comparison.implementations.items) = 3
    /\ GivenScore(1) = 0
    /\ GivenScore(2) > 0
    /\ GivenScore(2) = GivenScore(3)
    /\ GivenTool(2) # GivenTool(3)
    /\ comparison.result.bestTool = GivenTool(2)

\* the raw score of the i-th implementation passed in on a metric
GivenRaw(i, metric) ==
    IF AnalyzeQuality(comparison.implementations.items[i].value).error = ""
    THEN Scores[metric] ELSE 0

GivenIndices == 1..Len(comparison.implementations.items)

SetMax(S) == CHOOSE x \in S : \A y \in S : y <= x

TopScore(metric) == SetMax({GivenRaw(i, metric) : i \in GivenIndices})
Spread(metric) ==
    TopScore(metric) - SetMin({GivenRaw(i, metric) : i \in GivenIndices})

\* the tool of the first implementation with the top score on the metric
TopTool(metric) ==
    GivenTool(SetMin({i \in GivenIndices : GivenRaw(i, metric) = TopScore(metric)}))

\* the recommendations hold a per-metric line for the metric
Recommended(metric) ==
    \E k \in 1..Len(comparison.result.findings.recommendations) :
        LET line == comparison.result.findings.recommendations[k]
        IN  line.kind = "For metric, consider" /\ line.names[1] = metric

RecommendedTools(metric) ==
    {comparison.result.findings.recommendations[k].names[2] :
        k \in {j \in 1..Len(comparison.result.findings.recommendations) :
                  LET line == comparison.result.findings.recommendations[j]
                  IN  line.kind = "For metric, consider" /\ line.names[1] = metric}}

ComparedMetrics == {MetricNames[i] : i \in 1..Len(MetricNames)}

\* C23: for every metric whose score spread across the compared
\* implementations (max - min) is at least 2 points, the recommendations
\* contain a per-metric entry naming that metric's top-scoring tool; for
\* metrics with a spread below 2 there is no such entry.
C23_RecommendedWhenSpreadAtLeastTwo ==
    ComparedThrough =>
        \A metric \in ComparedMetrics :
            IF Spread(metric) >= 20
            THEN RecommendedTools(metric) = {TopTool(metric)}
            ELSE ~Recommended(metric)

\* C23, amended: the per-metric entry naming the metric's top-scoring tool is
\* present exactly for the metrics whose spread is at least 2 points and
\* whose top score is at least 8; for every other metric there is no such
\* entry.
C23_RecommendedWhenSpreadAndTopScore ==
    ComparedThrough =>
        \A metric \in ComparedMetrics :
            IF Spread(metric) >= 20 /\ TopScore(metric) >= 80
            THEN RecommendedTools(metric) = {TopTool(metric)}
            ELSE ~Recommended(metric)

\* a comparison in which one metric has a spread of 2 points or more and an
\* entry, and another has such a spread and a top score below 8
C23_Witness ==
    /\ ComparedThrough
    /\ Spread("functionality") >= 20
    /\ Recommended("functionality")
    /\ Spread("architecture") >= 20
    /\ TopScore("architecture") < 80
    /\ ~Recommended("architecture")

\* the analysis of one of the implementations passed in failed
SomeAnalysisFailed ==
    \E i \in GivenIndices :
        \/ comparison.implementations.items[i].value.kind = "null"
        \/ AnalyzeQuality(comparison.implementations.items[i].value).error # ""

\* C24: compareImplementations never throws: when the implementation list
\* is empty or absent, or when analysing one of the implementations fails,
\* it still returns a result object with ranked, metricComparisons and
\* findings defined, the empty or absent list giving ranked = [] and a
\* single 'Comparison failed' entry in findings.overall.
C24_CompareImplementationsNeverThrows ==
    comparison.status = "called" =>
        /\ comparison.result.status = "returned"
        /\ Len(comparison.result.findings.overall) > 0
        /\ comparison.result.error = "" =>
              /\ Len(comparison.result.ranked) = Len(comparison.implementations.items)
              /\ DOMAIN comparison.result.metricComparisons = ComparedMetrics
        /\ comparison.result.error # "" =>
              /\ comparison.result.ranked = <<>>
              /\ comparison.result.metricComparisons = EmptyMap
        /\ comparison.implementations.items = <<>> =>
              /\ comparison.result.ranked = <<>>
              /\ Len(comparison.result.findings.overall) = 1
              /\ comparison.result.findings.overall[1].kind = "Comparison failed"

\* a comparison was made of an array in which one implementation has code
\* and the analysis of another fails
C24_Witness ==
    /\ comparison.status = "called"
    /\ SomeAnalysisFailed
    /\ \E i \in GivenIndices : GivenRaw(i, "functionality") > 0
    /\ comparison.result.error = ""
    /\ Len(comparison.result.ranked) >= 2

----------------------------------------------------------------------------
(* Properties of the quality score *)

RECURSIVE SumWeights(_)
SumWeights(names) ==
    IF names = <<>> THEN 0 ELSE MetricWeights[Head(names)] + SumWeights(Tail(names))

\* the sum of rawScore x weight over the metrics of detailedScores, in
\* thousandths
RECURSIVE SumWeighted(_, _)
SumWeighted(names, detailedScores) ==
    IF names = <<>> THEN 0
    ELSE (IF Head(names) \in DOMAIN detailedScores
          THEN detailedScores[Head(names)].rawScore * detailedScores[Head(names)].weight
          ELSE 0) + SumWeighted(Tail(names), detailedScores)

\* C25: the eight quality metric weights sum to 1.0 and every result of
\* analyzeQuality has overallScore equal to the sum of rawScore x weight
\* over the scored metrics rounded to one decimal, so overallScore lies in
\* [0, 10] when every rawScore lies in [0, 10].
C25_OverallScoreIsWeightedSum ==
    /\ Len(MetricNames) = 8
    /\ SumWeights(MetricNames) = 100
    /\ quality.status = "returned" =>
          LET sum == SumWeighted(MetricNames, quality.detailedScores)
          IN  /\ \A metric \in DOMAIN quality.detailedScores :
                    quality.detailedScores[metric].weight = MetricWeights[metric]
              /\ 100 * quality.overallScore - 50 <= sum
              /\ sum < 100 * quality.overallScore + 50
              /\ (\A metric \in DOMAIN quality.detailedScores :
                      quality.detailedScores[metric].rawScore \in 0..100)
                    => quality.overallScore \in 0..100

\* an analysis returned with all eight metrics scored
C25_Witness ==
    /\ quality.status = "returned"
    /\ quality.error = ""
    /\ Cardinality(DOMAIN quality.detailedScores) = 8
    /\ quality.overallScore > 0

----------------------------------------------------------------------------
(* Properties of the processTask pipelines *)

\* C26: every task that a processTask call starts tracking is finalized:
\* whatever the outcome of the later pipeline steps, by the time the call
\* settles the task has been marked completed in the TokenTracker (unless a
\* later call on the same task id is still running), so no task stays in
\* the started state forever.
C26_SettledTaskIsCompleted ==
    \A c \in DOMAIN calls :
        (/\ calls[c].settled # "pending"
         /\ calls[c].task.id \in DOMAIN tasks
         /\ \A d \in DOMAIN calls :
               calls[d].task.id = calls[c].task.id => calls[d].settled # "pending")
            => tasks[calls[c].task.id].completed

\* the number of processTask calls that settled as s
SettledAs(s) == Cardinality({c \in DOMAIN calls : calls[c].settled = s})

\* C27: the Metrics Collector counters lose no update under interleaving:
\* for any interleaving of concurrent processTask calls at their await
\* points, in every reachable state performance.processedTasks =
\* successfulTasks + failedTasks = the number of recordTaskMetrics calls
\* made so far (each appends one entry to every history), and each
\* processTask call of ClientFeatures.tsx on a task with an id records
\* exactly one outcome, a success if it resolves and a failure if it
\* rejects.
C27_CountersLoseNoUpdate ==
    LET performance == metrics.performance
    IN  /\ performance.processedTasks
              = performance.successfulTasks + performance.failedTasks
        /\ performance.processedTasks = Len(metrics.quality.history)
        /\ performance.processedTasks = Len(metrics.tokenUsage.history)
        /\ system.variant = "client" =>
              /\ performance.successfulTasks = SettledAs("resolved")
              /\ performance.failedTasks = SettledAs("rejected")

\* two calls ran on the ClientFeatures.tsx system, the first resolved and
\* the second, begun behind it, rejected
C27_Witness ==
    /\ system.variant = "client"
    /\ DOMAIN calls = {1, 2}
    /\ calls[1].settled = "resolved"
    /\ calls[2].settled = "rejected"
    /\ metrics.performance.processedTasks = 2

----------------------------------------------------------------------------
(* Properties of the per-tool map *)

\* C28: the best delegated cost is consistent with the per-tool map: in
\* every reachable state of a task with at least one delegated recording,
\* delegated.toolName is a key of the task's per-tool map and
\* delegated.total equals the minimum of the totals currently stored in
\* that map, also when the same tool records a cost more than once.
C28_BestIsMinimumOfToolMap ==
    \A id \in DOMAIN tasks :
        DOMAIN tasks[id].tools # {} =>
            /\ tasks[id].delegated.toolName \in DOMAIN tasks[id].tools
            /\ tasks[id].delegated.total
                  = SetMin({tasks[id].tools[t].total : t \in DOMAIN tasks[id].tools})

----------------------------------------------------------------------------
(* Properties of template selection *)

\* C29: template selection stays consistent with the registry: after any
\* sequence of createTemplate, updateTemplate and deleteTemplate calls,
\* whenever getBestTemplateType(tool, task) returns a non-null type,
\* getTemplate(tool, thatType, task) returns a filled template rather than
\* null.
C29_SelectedTypeIsRegistered ==
    /\ \A tool \in RegistryTools, task \in SelectionTasks :
          GetBestTemplateType(tool, task) # Null
              => HasTemplate(tool, GetBestTemplateType(tool, task))
    /\ (templateCall.op = "generateTemplate" /\ templateCall.type # Null)
          => templateCall.result # Null

----------------------------------------------------------------------------
(* Properties of dev mode *)

\* C30: in dev mode (system config.devMode set, connectors constructed in
\* dev mode) processTask on a task with an id and a description runs the
\* whole pipeline on simulated responses without credentials: the
\* implementation step is served by the boltDiy connector, the call
\* resolves with a result containing quality and efficiency, the task ends
\* completed in the TokenTracker and one success per call is recorded in
\* the Metrics Collector.
C30_DevModeRunsWholePipeline ==
    (system.variant = "client" /\ system.devMode /\ system.simulated) =>
        \A c \in DOMAIN calls :
            (calls[c].task.description = "text" /\ calls[c].settled # "pending") =>
                /\ calls[c].tool = "boltDiy"
                /\ calls[c].settled = "resolved"
                /\ calls[c].result.shape = "full"
                /\ (\A d \in DOMAIN calls : calls[d].settled # "pending")
                      => tasks[calls[c].task.id].completed
                /\ metrics.performance.successfulTasks >= 1

====
